---- MODULE Spec2Model ----
(***************************************************************************)
(* Model of the data-conversion layer of `uf`:                             *)
(*   - sample_wrong_tokens and RecBERTLM._convert_X                        *)
(*     (src/uf/application/rec_bert.py)                                    *)
(*   - RecBERTLM.__init__, convert, _convert_x and _get_predict_outputs    *)
(*     (src/uf/application/rec_bert.py)                                    *)
(*   - BaseModule._parallel_convert, fit, predict and score                *)
(*     (src/uf/core.py)                                                    *)
(* Python lists are TLA+ sequences; a Python index i is the TLA+ index     *)
(* i + 1, and the operators below take Python (0-based) indices.           *)
(***************************************************************************)
EXTENDS Integers, Sequences, FiniteSets, TLC

\* ------------------------------------------------------------------ bounds
MaxLen == 3          \* largest max_seq_length / list length explored
MaxBudget == 2       \* largest max_rep / max_add / max_del of a direct call
MaxTokens == 4       \* longest example (in tokens) given to _convert_X
MaxInputs == 4       \* longest list of examples given to _parallel_convert
MaxProcesses == 3    \* largest utils.NUM_PROCESSES
MaxShapes == 3       \* longest list of examples of any shape
MaxExamples == 2     \* longest list of examples given to fit/predict/score

\* vocabulary sizes of the direct calls of sample_wrong_tokens
VocabSizes == {2, 3}

\* ------------------------------------------------------- python list helpers
At(s, i) == s[i + 1]

PopAt(s, i) == SubSeq(s, 1, i) \o SubSeq(s, i + 2, Len(s))

InsertAt(s, i, v) == SubSeq(s, 1, i) \o <<v>> \o SubSeq(s, i + 1, Len(s))

PopLast(s) == SubSeq(s, 1, Len(s) - 1)

SetAt(s, i, v) == [s EXCEPT ![i + 1] = v]

Zeros(n) == [k \in 1..n |-> 0]

Min(a, b) == IF a <= b THEN a ELSE b

Max(a, b) == IF a >= b THEN a ELSE b

\* number of positions of s holding a non-zero value
NonZeroCount(s) == Cardinality({k \in 1..Len(s) : s[k] # 0})

\* all sequences over S of length lo..hi
SeqsOf(S, lo, hi) == UNION {[1..n -> S] : n \in lo..hi}

\* ------------------------------------------------- python optional values
\* None
None == <<>>

\* an argument that is given: the value, boxed
Some(v) == <<v>>

\* python truth of an optional list: None and [] are false
Truthy(o) == o # <<>> /\ o[1] # <<>>

\* ------------------------------------------------------------ tokenizer
\* The word-piece vocabulary: id 0 is the pad id.
Vocab == [t \in {"[PAD]", "a", "b"} |->
             IF t = "[PAD]" THEN 0 ELSE IF t = "a" THEN 1 ELSE 2]

\* the tokens an example may hold
Tokens == {"a", "b"}

\* lower-casing of one word (do_lower_case)
Lower(w) == IF w = "A" THEN "a" ELSE IF w = "B" THEN "b" ELSE w

\* tokenizer.tokenize on a text given as its words: one lower-cased token
\* per word
Tokenize(words) == [k \in 1..Len(words) |-> Lower(words[k])]

\* tokenizer.convert_tokens_to_ids
ConvertTokensToIds(tokens) == [k \in 1..Len(tokens) |-> Vocab[tokens[k]]]

\* utils.truncate_segments on one segment: drop tokens until the segment
\* fits, from the end ('LIFO') or from the front ('FIFO').
TruncateSegments(tokens, max_len, method) ==
    IF Len(tokens) <= max_len THEN tokens
    ELSE IF method = "LIFO" THEN SubSeq(tokens, 1, max_len)
    ELSE SubSeq(tokens, Len(tokens) - max_len + 1, Len(tokens))

\* ------------------------------------------------------- _convert_X helpers
\* mutant of PadIds: the ids are not padded
PadIdsMissing(ids, max_len) == ids

\* lines 165-167: right-pad the ids with 0 up to max_seq_length
PadIds(ids, max_len) ==
    ids \o Zeros(IF max_len > Len(ids) THEN max_len - Len(ids) ELSE 0)

\* lines 155-167: the padded ids of one example
EncodeIds(tokens, max_len, method) ==
    PadIds(ConvertTokensToIds(TruncateSegments(tokens, max_len, method)),
           max_len)

\* np.round of num/den (den > 0, num >= 0): to nearest, ties to even
RoundHalfEven(num, den) ==
    LET q == num \div den
        r == num % den
    IN  IF 2 * r < den THEN q
        ELSE IF 2 * r > den THEN q + 1
        ELSE IF q % 2 = 0 THEN q ELSE q + 1

\* line 63: _all_prob, in percent
AllProb(p) == p[1] + p[2] + p[3]

\* lines 64-66: the assertion on the sum of the probabilities holds
SumInRange(p) == AllProb(p) > 0 /\ AllProb(p) < 100

\* lines 67-70: self._p, every probability divided by their sum
Normalised(p) == [k \in 1..3 |-> <<p[k], AllProb(p)>>]

\* mutant of MaxAll: the product is rounded up
MaxAllCeiling(nonpad, p) == (nonpad * AllProb(p) + 99) \div 100

\* line 181: max_all = int(np.round(nonpad_seq_length * self._all_prob))
MaxAll(nonpad, p) == RoundHalfEven(nonpad * AllProb(p), 100)

\* mutant of BudgetDraws: an edit type of weight 0 can be drawn
BudgetDrawsAnyType(nonpad, p) ==
    {m \in [1..3 -> 0..MaxAll(nonpad, p)] :
        m[1] + m[2] + m[3] = MaxAll(nonpad, p)}

\* lines 180-184: the triples maxs can hold after max_all categorical draws
\* with weights p (an edit type of weight 0 is never drawn)
BudgetDraws(nonpad, p) ==
    {m \in [1..3 -> 0..MaxAll(nonpad, p)] :
        /\ m[1] + m[2] + m[3] = MaxAll(nonpad, p)
        /\ \A k \in 1..3 : p[k] = 0 => m[k] = 0}

\* ------------------------------------------------- sample_wrong_tokens
\* mutant of AddCands: a token that absorbed another may itself be removed
AddCandsAbsorbed(ids, add) ==
    {i \in 0..(Len(ids) - 2) :
        /\ At(ids, i) # 0
        /\ At(ids, i + 1) # 0
        /\ At(add, i) = 0}

\* mutant of AddCands: a token that already absorbed one may absorb another
AddCandsLabelled(ids, add) ==
    {i \in 0..(Len(ids) - 2) :
        /\ At(ids, i) # 0
        /\ At(ids, i + 1) # 0
        /\ At(add, i + 1) = 0}

\* lines 431-435: candidates of the add loop
AddCands(ids, add) ==
    {i \in 0..(Len(ids) - 2) :
        /\ At(ids, i) # 0
        /\ At(ids, i + 1) # 0
        /\ At(add, i) = 0
        /\ At(add, i + 1) = 0}

\* mutant of RepCands: the scan starts at index 1
RepCandsSkipFirst(ids, rep) ==
    {i \in 1..(Len(ids) - 1) : At(ids, i) # 0 /\ At(rep, i) = 0}

\* lines 452-454: candidates of the rep loop
RepCands(ids, rep) ==
    {i \in 0..(Len(ids) - 1) : At(ids, i) # 0 /\ At(rep, i) = 0}

\* lines 467-469: candidates of the del loop
DelCands(ids, del) ==
    {i \in 0..(Len(ids) - 1) : At(ids, i) # 0 /\ At(del, i) = 0}

\* mutant of AddApply: _input_ids.append(0) is missing
AddApplyNoPad(ids, rep, add, del, index) ==
    [ids |-> PopAt(ids, index + 1),
     add |-> Append(PopAt(SetAt(add, index, At(ids, index + 1)), index + 1), 0),
     rep |-> Append(PopAt(rep, index + 1), 0),
     del |-> Append(PopAt(del, index + 1), 0)]

\* mutant of AddApply: the label is read after the pop and the append
AddApplyLabelAfterPop(ids, rep, add, del, index) ==
    [ids |-> Append(PopAt(ids, index + 1), 0),
     add |-> Append(PopAt(SetAt(add, index,
                                At(Append(PopAt(ids, index + 1), 0), index + 1)),
                          index + 1), 0),
     rep |-> Append(PopAt(rep, index + 1), 0),
     del |-> Append(PopAt(del, index + 1), 0)]

\* lines 440-447: one add edit at index
AddApply(ids, rep, add, del, index) ==
    [ids |-> Append(PopAt(ids, index + 1), 0),
     add |-> Append(PopAt(SetAt(add, index, At(ids, index + 1)), index + 1), 0),
     rep |-> Append(PopAt(rep, index + 1), 0),
     del |-> Append(PopAt(del, index + 1), 0)]

\* mutant of RepApply: the label is taken after the id is overwritten
RepApplyLabelAfterWrite(ids, rep, add, del, index, v) ==
    [ids |-> SetAt(ids, index, v),
     rep |-> SetAt(rep, index, v),
     add |-> add,
     del |-> del]

\* lines 459-460: one rep edit at index, v the id random.randint returned
RepApply(ids, rep, add, del, index, v) ==
    [ids |-> SetAt(ids, index, v),
     rep |-> SetAt(rep, index, At(ids, index)),
     add |-> add,
     del |-> del]

\* mutant of DelApply: the inserted id gets the add label of the token at index
DelApplyCopiesLabel(ids, rep, add, del, index, v) ==
    [ids |-> PopLast(InsertAt(ids, index, v)),
     rep |-> PopLast(InsertAt(rep, index, 0)),
     add |-> PopLast(InsertAt(add, index, At(add, index))),
     del |-> PopLast(InsertAt(del, index, 1))]

\* mutant of DelApply: the id is inserted but the rep and add labels stay put
DelApplyLabelsStay(ids, rep, add, del, index, v) ==
    [ids |-> PopLast(InsertAt(ids, index, v)),
     rep |-> rep,
     add |-> add,
     del |-> PopLast(InsertAt(del, index, 1))]

\* mutant of DelApply: the del flag is inserted at index + 1
DelApplyFlagAfter(ids, rep, add, del, index, v) ==
    [ids |-> PopLast(InsertAt(ids, index, v)),
     add |-> PopLast(InsertAt(add, index, 0)),
     rep |-> PopLast(InsertAt(rep, index, 0)),
     del |-> PopLast(InsertAt(del, index + 1, 1))]

\* lines 474-481: one del edit at index, v the id random.randint returned
DelApply(ids, rep, add, del, index, v) ==
    [ids |-> PopLast(InsertAt(ids, index, v)),
     add |-> PopLast(InsertAt(add, index, 0)),
     rep |-> PopLast(InsertAt(rep, index, 0)),
     del |-> PopLast(InsertAt(del, index, 1))]

\* mutant of RandomIds: the pad id 0 can be drawn
RandomIdsFromZero(vsize) == 0..(vsize - 1)

\* lines 460, 474: the values random.randint(1, vocab_size - 1) can return
RandomIds(vsize) == 1..(vsize - 1)

\* mutant of AddContinues: the loop does not break when no candidate is left
AddContinuesNoBreak(done, budget, cands) == done < budget

\* lines 430, 436-437: the add loop goes on
AddContinues(done, budget, cands) == done < budget /\ cands # {}

\* mutant of RepContinues: the loop runs max_rep + 1 times
RepContinuesOneMore(done, budget, cands) == done <= budget /\ cands # {}

\* lines 451, 455-456: the rep loop goes on
RepContinues(done, budget, cands) == done < budget /\ cands # {}

\* mutant of DelContinues: the loop does not stop on a full sequence
DelContinuesWhenFull(done, budget, ids, cands) ==
    done < budget /\ cands # {}

\* mutant of DelContinues: the loop runs max_del - 1 times
DelContinuesOneLess(done, budget, ids, cands) ==
    done + 1 < budget /\ At(ids, Len(ids) - 1) = 0 /\ cands # {}

\* lines 464-466, 470-471: the del loop goes on
DelContinues(done, budget, ids, cands) ==
    done < budget /\ At(ids, Len(ids) - 1) = 0 /\ cands # {}

\* --------------------------------------------------------------- convert
\* The examples a caller may pass. shape is the python shape of the example,
\* tokens its words (a text), its characters (a bare string passed as a
\* tokenized example) or its items (a list).
\* a text: 'a b'
Str(words) == [shape |-> "str", tokens |-> words]

\* a list of strings: ['a', 'b']
ListOfStr(tokens) == [shape |-> "list_of_str", tokens |-> tokens]

\* a list of lists of strings: [['a', 'b']]
ListOfList(tokens) == [shape |-> "list_of_list", tokens |-> tokens]

\* an integer, which has no elements
NotASequence == [shape |-> "int", tokens |-> <<>>]

\* mutant of ConvertExample: the tokenized branch returns whatever it is
\* given
ConvertExampleNoShapeTest(x, tokenized) ==
    IF ~tokenized /\ x.shape = "str"
    THEN [error |-> "none", tokens |-> Tokenize(x.tokens)]
    ELSE [error |-> "none", tokens |-> x.tokens]

\* rec_bert.py lines 202-219, _convert_x: the tokens of the example, or the
\* error raised
ConvertExample(x, tokenized) ==
    IF ~tokenized
    THEN IF x.shape = "str"                              \* line 206
         THEN [error |-> "none", tokens |-> Tokenize(x.tokens)]
         ELSE [error |-> "ValueError", tokens |-> <<>>]  \* line 217
    ELSE IF x.shape = "int" \/ x.tokens = <<>>           \* x[0] raises
         THEN [error |-> "ValueError", tokens |-> <<>>]  \* line 213
         ELSE IF x.shape \in {"str", "list_of_str"}      \* line 210
              THEN [error |-> "none", tokens |-> x.tokens]
              ELSE [error |-> "ValueError", tokens |-> <<>>]   \* line 217

\* rec_bert.py lines 108-115, 142-200 with is_training False: the data
\* convert returns for the examples of X_target, keyed by field name
Convert(X_target, tokenized, max_len, method) ==
    [key \in {"input_ids"} |->
        [k \in 1..Len(X_target) |->
            EncodeIds(ConvertExample(X_target[k], tokenized).tokens,
                      max_len, method)]]

\* rec_bert.py lines 149-161 with _on_predict set: the truncated tokens
\* _convert_X has appended to self._input_tokens when it returns or raises
RetainedTokens(X_target, tokenized, max_len, method) ==
    LET bad == {k \in 1..Len(X_target) :
                   ConvertExample(X_target[k], tokenized).error # "none"}
        n == IF bad = {} THEN Len(X_target)
             ELSE (CHOOSE k \in bad : \A j \in bad : k <= j) - 1
    IN  [k \in 1..n |->
            TruncateSegments(ConvertExample(X_target[k], tokenized).tokens,
                             max_len, method)]

\* ------------------------------------------------------ _parallel_convert
\* mutant of NBuckets: one bucket per worker, however few the examples
NBucketsPerWorker(n_inputs, num_processes) == Max(num_processes, 1)

\* core.py line 648
NBuckets(n_inputs, num_processes) == Max(Min(n_inputs, num_processes), 1)

\* mutant of BucketOf: contiguous chunks of ceil(n_inputs / n_buckets)
BucketOfChunked(i, n_inputs, n_buckets) ==
    i \div ((n_inputs + n_buckets - 1) \div n_buckets)

\* core.py line 656: the bucket example i goes to
BucketOf(i, n_inputs, n_buckets) == i % n_buckets

\* mutant of BucketX: every bucket is given all the examples
BucketXWhole(X_all, upto, b, n_buckets) == SubSeq(X_all, 1, upto)

\* core.py lines 650-664: bucket b of X, the examples routed to it in input
\* order
RECURSIVE BucketX(_, _, _, _)
BucketX(X_all, upto, b, n_buckets) ==
    IF upto = 0 THEN <<>>
    ELSE LET rest == BucketX(X_all, upto - 1, b, n_buckets)
         IN  IF BucketOf(upto - 1, Len(X_all), n_buckets) = b
             THEN Append(rest, X_all[upto])
             ELSE rest

\* core.py lines 650-664: the column of bucket b for one argument, None
\* when the argument is None or empty
BucketColumn(arg, b, n_buckets) ==
    IF Truthy(arg)
    THEN Some(BucketX(arg[1], Len(arg[1]), b, n_buckets))
    ELSE None

\* core.py lines 650-664: all buckets, bucket b at TLA+ index b + 1
Buckets(X_arg, y_arg, sample_weight_arg, X_tokenized_arg, n_buckets) ==
    [k \in 1..n_buckets |->
        [X |-> BucketColumn(X_arg, k - 1, n_buckets),
         y |-> BucketColumn(y_arg, k - 1, n_buckets),
         sample_weight |-> BucketColumn(sample_weight_arg, k - 1, n_buckets),
         X_tokenized |-> BucketColumn(X_tokenized_arg, k - 1, n_buckets)]]

\* rec_bert.py lines 109-110, core.py line 647: the examples convert
\* encodes, X if X else X_tokenized
XTarget(X_arg, X_tokenized_arg) ==
    IF Truthy(X_arg) THEN X_arg[1]
    ELSE IF Truthy(X_tokenized_arg) THEN X_tokenized_arg[1]
    ELSE <<>>

\* rec_bert.py lines 99-102, 152-153, core.py lines 698-724: the error
\* convert raises, "none" when it returns; y and sample_weight are as long
\* as the examples
ConvertError(X_arg, y_arg, X_tokenized_arg) ==
    IF Truthy(X_arg) = Truthy(X_tokenized_arg)       \* core.py 703, 707
    THEN "ValueError"
    ELSE IF y_arg # None THEN "AssertionError"       \* rec_bert.py 101
    ELSE IF \E k \in 1..Len(XTarget(X_arg, X_tokenized_arg)) :
                ConvertExample(XTarget(X_arg, X_tokenized_arg)[k],
                               ~Truthy(X_arg)).error # "none"
         THEN "ValueError"                           \* rec_bert.py 153
         ELSE "none"

\* mutant of SortByBucket: the results are merged in completion order
SortByBucketMissing(results) == results

\* mutant of SortByBucket: the sort is descending
SortByBucketReversed(results) ==
    [k \in 1..Len(results) |->
        results[CHOOSE j \in 1..Len(results) :
            Cardinality({m \in 1..Len(results) :
                            results[m].id > results[j].id}) = k - 1]]

\* core.py line 675: data_buckets.sort(key=lambda x: x[0])
SortByBucket(results) ==
    [k \in 1..Len(results) |->
        results[CHOOSE j \in 1..Len(results) :
            Cardinality({m \in 1..Len(results) :
                            results[m].id < results[j].id}) = k - 1]]

\* utils.transform on the per-bucket columns of one field (core.py line 678):
\* the columns interleaved, one row of every bucket in turn
RECURSIVE Transform(_)
Transform(columns) ==
    LET left == SelectSeq(columns, LAMBDA c : c # <<>>)
    IN  IF left = <<>> THEN <<>>
        ELSE [k \in 1..Len(left) |-> Head(left[k])]
             \o Transform([k \in 1..Len(left) |-> Tail(left[k])])

\* core.py lines 674-680: the merged data of the sorted bucket results
MergeBuckets(results) ==
    LET sorted == SortByBucket(results)
    IN  [key \in DOMAIN sorted[1].data |->
            Transform([k \in 1..Len(sorted) |-> sorted[k].data[key]])]

VARIABLES
    pc,              \* position: "convert_X", "add", "rep", "del", "done",
                     \* "error" (the sampler raised); in the constructor
                     \* "__init__", "constructed", "rejected"
    input_ids,       \* _input_ids
    rep_label_ids,   \* _rep_label_ids
    add_label_ids,   \* _add_label_ids
    del_label_ids,   \* _del_label_ids
    max_rep, max_add, max_del,
    vocab_size,
    add_done,        \* completed iterations of the add loop
    rep_done,        \* completed iterations of the rep loop
    del_done,        \* completed iterations of the del loop
    entry_ids,       \* history: _input_ids when sample_wrong_tokens was entered
    rep_entry_ids,   \* history: _input_ids when the rep loop was entered
    example,         \* the tokens of the example _convert_X encodes
    max_seq_length,
    truncate_method,
    is_training,
    probs,           \* <<rep_prob, add_prob, del_prob>>, in percent
    self_p,          \* self._p, each weight a fraction <<num, den>>
    cpc,             \* position of the call: "called" (method entered),
                     \* "start", "map", "done" (_parallel_convert), "ran"
                     \* (graph run), "returned", "raised"
    X,               \* the examples given to _parallel_convert
    NUM_PROCESSES,   \* utils.NUM_PROCESSES
    buckets,         \* the buckets, bucket b at index b + 1
    pending,         \* the buckets whose worker has not returned
    data_buckets,    \* the results (bucket id, data) as handed back
    data,            \* the data _parallel_convert returns
    tokenized,       \* the examples were passed as X_tokenized, not as X
    y,               \* the argument y, None or boxed
    sample_weight,   \* the argument sample_weight, None or boxed
    failed,          \* the buckets whose worker raised
    error,           \* the exception that left the call, "none" if none
    named,           \* the attributes the error message names
    method,          \* the method called: "fit", "predict", "score", "none"
    batch_size,      \* self.batch_size
    n_gpus,          \* len(self._gpu_ids)
    graph_built,     \* self._graph_built
    none_attrs,      \* the inference attributes whose value is None
    on_predict,      \* self._on_predict
    self_data,       \* self.data, None or boxed
    self_input_tokens,   \* self._input_tokens, None (unset) or boxed
    self_tokenized,      \* self._tokenized, None (unset) or boxed
    self_X_target,       \* self._X_target, None (unset) or boxed
    rep_preds,       \* the rep predictions of the graph, one row per example
    add_preds,       \* the add predictions, one row per example
    del_preds,       \* the del predictions, one row per example
    outputs          \* outputs['preds'] of _get_predict_outputs, None or boxed

svars == <<pc, input_ids, rep_label_ids, add_label_ids, del_label_ids,
           max_rep, max_add, max_del, vocab_size, add_done, rep_done,
           del_done, entry_ids, rep_entry_ids, example, max_seq_length,
           truncate_method, is_training, probs, self_p>>

cvars == <<cpc, X, NUM_PROCESSES, buckets, pending, data_buckets, data>>

\* the arguments of the call
avars == <<tokenized, y, sample_weight>>

\* how the call failed
fvars == <<failed, error, named>>

\* the attributes of the module
mvars == <<method, batch_size, n_gpus, graph_built, none_attrs, on_predict,
           self_data, self_input_tokens, self_tokenized, self_X_target>>

\* the predictions and what _get_predict_outputs makes of them
ovars == <<rep_preds, add_preds, del_preds, outputs>>

vars == <<svars, cvars, avars, ovars, fvars, mvars>>

\* what no step of the loops of sample_wrong_tokens changes
Config == <<vocab_size, entry_ids, example, max_seq_length, truncate_method,
            is_training, probs, self_p, max_rep, max_add, max_del, cvars,
            avars, ovars,
            fvars, mvars>>

\* the probabilities (percent) a RecBERTLM is built with: each >= 0 and the
\* sum strictly between 0 and 100 (lines 63-66)
ProbTriples ==
    {p \in [1..3 -> {0, 30, 60}] : AllProb(p) > 0 /\ AllProb(p) < 100}

\* no conversion of a list of examples is under way
NoConversion ==
    /\ cpc = "idle"
    /\ X = <<>>
    /\ NUM_PROCESSES = 1
    /\ buckets = <<>>
    /\ pending = {}
    /\ data_buckets = <<>>
    /\ data = <<>>
    /\ tokenized = FALSE /\ y = None /\ sample_weight = None
    /\ failed = {} /\ error = "none" /\ named = {}
    /\ method = "none"
    /\ batch_size = 0 /\ n_gpus = 0
    /\ graph_built = FALSE /\ none_attrs = {}
    /\ on_predict = FALSE
    /\ self_data = None
    /\ self_input_tokens = None
    /\ self_tokenized = None
    /\ self_X_target = None
    /\ rep_preds = <<>> /\ add_preds = <<>> /\ del_preds = <<>>
    /\ outputs = None

\* sample_wrong_tokens called on ids with all-zero labels
InitSample(ids, vsize, mrep, madd, mdel) ==
    /\ pc = "add"
    /\ input_ids = ids
    /\ rep_label_ids = Zeros(Len(ids))
    /\ add_label_ids = Zeros(Len(ids))
    /\ del_label_ids = Zeros(Len(ids))
    /\ max_rep = mrep /\ max_add = madd /\ max_del = mdel
    /\ vocab_size = vsize
    /\ add_done = 0 /\ rep_done = 0 /\ del_done = 0
    /\ entry_ids = ids
    /\ rep_entry_ids = <<>>
    /\ example = <<>>
    /\ max_seq_length = Len(ids)
    /\ truncate_method = "LIFO"
    /\ is_training = TRUE
    /\ probs = <<0, 0, 0>>
    /\ self_p = <<>>
    /\ NoConversion

\* a direct call of sample_wrong_tokens, any ids and any budget
InitDirect ==
    \E vsize \in VocabSizes :
    \E ids \in SeqsOf(0..(vsize - 1), 1, MaxLen) :
    \E mrep \in 0..MaxBudget, madd \in 0..MaxBudget, mdel \in 0..MaxBudget :
        InitSample(ids, vsize, mrep, madd, mdel)

\* the two concrete calls on ids = [5, 7, 9, 0, 0] with vocab_size = 100
InitScenario ==
    \E b \in {<<1, 0, 0>>, <<0, 1, 0>>} :
        InitSample(<<5, 7, 9, 0, 0>>, 100, b[1], b[2], b[3])

\* _convert_X about to encode one example
InitConvertX ==
    /\ pc = "convert_X"
    /\ example \in SeqsOf(Tokens, 0, MaxTokens)
    /\ max_seq_length \in 1..MaxLen
    /\ truncate_method \in {"LIFO", "FIFO"}
    /\ is_training \in BOOLEAN
    /\ probs \in ProbTriples
    /\ self_p = Normalised(probs)
    /\ vocab_size = Cardinality(DOMAIN Vocab)
    /\ input_ids = <<>>
    /\ rep_label_ids = <<>> /\ add_label_ids = <<>> /\ del_label_ids = <<>>
    /\ max_rep = 0 /\ max_add = 0 /\ max_del = 0
    /\ add_done = 0 /\ rep_done = 0 /\ del_done = 0
    /\ entry_ids = <<>>
    /\ rep_entry_ids = <<>>
    /\ NoConversion

Init == InitDirect \/ InitScenario \/ InitConvertX

\* lines 153-198 for one example: encode, and when training draw the budget
\* and enter sample_wrong_tokens
ConvertX ==
    /\ pc = "convert_X"
    /\ LET ids == EncodeIds(example, max_seq_length, truncate_method)
           nonpad_seq_length ==
               Len(TruncateSegments(example, max_seq_length, truncate_method))
       IN  /\ input_ids' = ids
           /\ IF is_training
              THEN /\ rep_label_ids' = Zeros(Len(ids))
                   /\ add_label_ids' = Zeros(Len(ids))
                   /\ del_label_ids' = Zeros(Len(ids))
                   /\ \E maxs \in BudgetDraws(nonpad_seq_length, probs) :
                        /\ max_rep' = maxs[1]
                        /\ max_add' = maxs[2]
                        /\ max_del' = maxs[3]
                   /\ entry_ids' = ids
                   /\ pc' = "add"
              ELSE /\ UNCHANGED <<rep_label_ids, add_label_ids, del_label_ids,
                                  max_rep, max_add, max_del, entry_ids>>
                   /\ pc' = "done"
    /\ UNCHANGED <<vocab_size, add_done, rep_done, del_done, rep_entry_ids,
                   example, max_seq_length, truncate_method, is_training,
                   probs, self_p, cvars, avars, ovars, fvars, mvars>>

\* lines 439, 458, 473-474: random.choice or random.randint raises and the
\* exception leaves sample_wrong_tokens, the lists as they are
Raise ==
    /\ pc' = "error"
    /\ UNCHANGED <<input_ids, rep_label_ids, add_label_ids, del_label_ids,
                   add_done, rep_done, del_done>>

\* lines 430-447: one iteration of the add loop
AddStep ==
    /\ pc = "add"
    /\ AddContinues(add_done, max_add, AddCands(input_ids, add_label_ids))
    /\ IF AddCands(input_ids, add_label_ids) = {}
       THEN Raise                     \* random.choice of an empty list
       ELSE /\ \E index \in AddCands(input_ids, add_label_ids) :
                 LET r == AddApply(input_ids, rep_label_ids, add_label_ids,
                                   del_label_ids, index)
                 IN  /\ input_ids' = r.ids
                     /\ rep_label_ids' = r.rep
                     /\ add_label_ids' = r.add
                     /\ del_label_ids' = r.del
            /\ add_done' = add_done + 1
            /\ UNCHANGED <<pc, rep_done, del_done>>
    /\ UNCHANGED <<rep_entry_ids, Config>>

\* lines 430, 436-437: the add loop ends, the rep loop is entered
AddExit ==
    /\ pc = "add"
    /\ ~AddContinues(add_done, max_add, AddCands(input_ids, add_label_ids))
    /\ pc' = "rep"
    /\ rep_entry_ids' = input_ids
    /\ UNCHANGED <<input_ids, rep_label_ids, add_label_ids, del_label_ids,
                   add_done, rep_done, del_done, Config>>

\* lines 451-460: one iteration of the rep loop
RepStep ==
    /\ pc = "rep"
    /\ RepContinues(rep_done, max_rep, RepCands(input_ids, rep_label_ids))
    /\ IF RepCands(input_ids, rep_label_ids) = {}
          \/ RandomIds(vocab_size) = {}
       THEN Raise      \* random.choice of an empty list, randint(1, 0)
       ELSE /\ \E index \in RepCands(input_ids, rep_label_ids) :
               \E v \in RandomIds(vocab_size) :
                 LET r == RepApply(input_ids, rep_label_ids, add_label_ids,
                                   del_label_ids, index, v)
                 IN  /\ input_ids' = r.ids
                     /\ rep_label_ids' = r.rep
                     /\ add_label_ids' = r.add
                     /\ del_label_ids' = r.del
            /\ rep_done' = rep_done + 1
            /\ UNCHANGED <<pc, add_done, del_done>>
    /\ UNCHANGED <<rep_entry_ids, Config>>

\* lines 451, 455-456: the rep loop ends, the del loop is entered
RepExit ==
    /\ pc = "rep"
    /\ ~RepContinues(rep_done, max_rep, RepCands(input_ids, rep_label_ids))
    /\ pc' = "del"
    /\ UNCHANGED <<input_ids, rep_label_ids, add_label_ids, del_label_ids,
                   add_done, rep_done, del_done, rep_entry_ids, Config>>

\* lines 464-481: one iteration of the del loop
DelStep ==
    /\ pc = "del"
    /\ DelContinues(del_done, max_del, input_ids,
                    DelCands(input_ids, del_label_ids))
    /\ IF DelCands(input_ids, del_label_ids) = {}
          \/ RandomIds(vocab_size) = {}
       THEN Raise      \* random.choice of an empty list, randint(1, 0)
       ELSE /\ \E index \in DelCands(input_ids, del_label_ids) :
               \E v \in RandomIds(vocab_size) :
                 LET r == DelApply(input_ids, rep_label_ids, add_label_ids,
                                   del_label_ids, index, v)
                 IN  /\ input_ids' = r.ids
                     /\ rep_label_ids' = r.rep
                     /\ add_label_ids' = r.add
                     /\ del_label_ids' = r.del
            /\ del_done' = del_done + 1
            /\ UNCHANGED <<pc, add_done, rep_done>>
    /\ UNCHANGED <<rep_entry_ids, Config>>

\* lines 464-466, 470-471: the del loop ends, sample_wrong_tokens returns
\* mutant of DelExit: the rep loop runs again after the del loop
DelExitBackToRep ==
    /\ pc = "del"
    /\ ~DelContinues(del_done, max_del, input_ids,
                     DelCands(input_ids, del_label_ids))
    /\ pc' = "rep"
    /\ UNCHANGED <<input_ids, rep_label_ids, add_label_ids, del_label_ids,
                   add_done, rep_done, del_done, rep_entry_ids, Config>>

DelExit ==
    /\ pc = "del"
    /\ ~DelContinues(del_done, max_del, input_ids,
                     DelCands(input_ids, del_label_ids))
    /\ pc' = "done"
    /\ UNCHANGED <<input_ids, rep_label_ids, add_label_ids, del_label_ids,
                   add_done, rep_done, del_done, rep_entry_ids, Config>>

Next ==
    \/ ConvertX
    \/ AddStep
    \/ AddExit
    \/ RepStep
    \/ RepExit
    \/ DelStep
    \/ DelExit

Spec == Init /\ [][Next]_vars


\* ------------------------------------------- predict's _parallel_convert
\* the examples a list may hold: texts
ExamplePool == {Str(<<"a">>), Str(<<"b">>), Str(<<"A", "b">>)}

\* a module as __init__ leaves it (rec_bert.py lines 54-57, core.py line 65)
\* on which no method is running
FreshModule ==
    /\ method = "none"
    /\ batch_size = 0 /\ n_gpus = 0
    /\ graph_built = FALSE /\ none_attrs = {}
    /\ on_predict = FALSE
    /\ self_data = None
    /\ self_input_tokens = None
    /\ self_tokenized = None
    /\ self_X_target = None
    /\ rep_preds = <<>> /\ add_preds = <<>> /\ del_preds = <<>>
    /\ outputs = None

\* no example is being sampled
NoSampling ==
    /\ pc = "idle"
    /\ input_ids = <<>>
    /\ rep_label_ids = <<>> /\ add_label_ids = <<>> /\ del_label_ids = <<>>
    /\ max_rep = 0 /\ max_add = 0 /\ max_del = 0
    /\ vocab_size = Cardinality(DOMAIN Vocab)
    /\ add_done = 0 /\ rep_done = 0 /\ del_done = 0
    /\ entry_ids = <<>>
    /\ rep_entry_ids = <<>>
    /\ example = <<>>

\* _parallel_convert is entered and nothing is converted yet
ConversionStarts ==
    /\ buckets = <<>>
    /\ pending = {}
    /\ data_buckets = <<>>
    /\ data = <<>>
    /\ failed = {} /\ error = "none" /\ named = {}

\* predict (core.py lines 363-364) hands X to _parallel_convert with
\* is_training False; no example is being sampled
InitParallel ==
    /\ cpc = "start"
    /\ X \in SeqsOf(ExamplePool, 1, MaxInputs)
    /\ tokenized = FALSE /\ y = None /\ sample_weight = None
    /\ NUM_PROCESSES \in 1..MaxProcesses
    /\ max_seq_length \in 1..MaxLen
    /\ truncate_method = "LIFO"
    /\ is_training = FALSE
    /\ probs = <<30, 30, 30>>
    /\ self_p = Normalised(probs)
    /\ ConversionStarts
    /\ NoSampling
    /\ FreshModule

\* rec_bert.py lines 108-138 with is_training True and no edit budget: the
\* data convert returns
TrainingConvert(X_target, sample_weight_arg, tokenized_arg, max_len, trunc) ==
    [key \in {"input_ids", "rep_label_ids", "add_label_ids", "del_label_ids",
              "sample_weight"} |->
        [k \in 1..Len(X_target) |->
            IF key = "input_ids"
            THEN EncodeIds(ConvertExample(X_target[k], tokenized_arg).tokens,
                           max_len, trunc)
            ELSE IF key = "sample_weight"
            THEN (IF Truthy(sample_weight_arg)
                  THEN sample_weight_arg[1][k] ELSE 1)
            ELSE Zeros(max_len)]]

\* rec_bert.py line 175: no example of X_target gets an edit budget
NoBudget(X_target, tokenized_arg, max_len, trunc, p) ==
    \A k \in 1..Len(X_target) :
        MaxAll(Len(TruncateSegments(
                       ConvertExample(X_target[k], tokenized_arg).tokens,
                       max_len, trunc)), p) = 0

\* rec_bert.py lines 97-140: the data of one call of convert that returns
ConvertData(X_target, sample_weight_arg, tokenized_arg, training) ==
    IF training
    THEN TrainingConvert(X_target, sample_weight_arg, tokenized_arg,
                         max_seq_length, truncate_method)
    ELSE Convert(X_target, tokenized_arg, max_seq_length, truncate_method)

\* the argument X of the call
XArg == IF tokenized THEN None ELSE Some(X)

\* the argument X_tokenized of the call
XTokenizedArg == IF tokenized THEN Some(X) ELSE None

\* core.py lines 641-642: one process, convert runs on the whole list in the
\* caller's own module (rec_bert.py lines 97-140)
SequentialConvert ==
    /\ cpc = "start"
    /\ NUM_PROCESSES <= 1
    /\ LET raised == ConvertError(XArg, y, XTokenizedArg)
       IN  /\ error' = raised
           /\ cpc' = IF raised = "none" THEN "done" ELSE "raised"
           /\ data' = IF raised = "none"
                      THEN ConvertData(X, sample_weight, tokenized,
                                       is_training)
                      ELSE data
           /\ self_input_tokens' =
                  IF on_predict /\ y = None
                  THEN Some(RetainedTokens(X, tokenized, max_seq_length,
                                           truncate_method))
                  ELSE self_input_tokens
           /\ self_tokenized' =
                  IF on_predict /\ raised = "none"
                  THEN Some(tokenized) ELSE self_tokenized
           /\ self_X_target' =
                  IF on_predict /\ raised = "none"
                  THEN Some(X) ELSE self_X_target
           /\ batch_size' =
                  IF raised = "none" /\ Len(X) < batch_size
                  THEN Max(Len(X), n_gpus) ELSE batch_size
    /\ UNCHANGED <<svars, X, NUM_PROCESSES, buckets, pending, data_buckets,
                   avars, ovars, failed, named, method, n_gpus, graph_built,
                   none_attrs, on_predict, self_data>>

\* core.py lines 647-672: the examples are dealt to the buckets and the
\* buckets handed to the pool
Partition ==
    /\ cpc = "start"
    /\ NUM_PROCESSES > 1
    /\ LET n_buckets == NBuckets(Len(X), NUM_PROCESSES)
       IN  /\ buckets' = Buckets(XArg, y, sample_weight, XTokenizedArg,
                                 n_buckets)
           /\ pending' = 0..(n_buckets - 1)
    /\ cpc' = "map"
    /\ UNCHANGED <<svars, X, NUM_PROCESSES, data_buckets, data, avars, ovars, fvars,
                   mvars>>

\* core.py line 672: the worker of bucket b builds a module of its own from
\* the caller's constructor arguments, runs convert on the bucket and hands
\* back (b, data), or raises
WorkerReturn ==
    /\ cpc = "map"
    /\ \E b \in pending :
         LET bucket == buckets[b + 1]
             target == XTarget(bucket.X, bucket.X_tokenized)
             raised == ConvertError(bucket.X, bucket.y, bucket.X_tokenized)
         IN  /\ IF raised = "none"
                THEN /\ data_buckets' =
                            Append(data_buckets,
                                   [id |-> b,
                                    data |-> ConvertData(target,
                                                 bucket.sample_weight,
                                                 tokenized, is_training)])
                     /\ failed' = failed
                ELSE /\ data_buckets' = data_buckets
                     /\ failed' = failed \cup {b}
             /\ pending' = pending \ {b}
    /\ UNCHANGED <<svars, cpc, X, NUM_PROCESSES, buckets, data, avars, ovars, error,
                   named, mvars>>

\* mutant of Merge: the results of the workers that returned are merged
\* and the failures dropped
MergeSurvivors ==
    /\ cpc = "map"
    /\ pending = {}
    /\ IF data_buckets # <<>>
       THEN /\ data' = MergeBuckets(data_buckets)
            /\ cpc' = "done"
            /\ error' = error
       ELSE /\ data' = data
            /\ cpc' = "raised"
            /\ error' = "ValueError"
    /\ UNCHANGED <<svars, X, NUM_PROCESSES, buckets, pending, data_buckets,
                   avars, ovars, failed, named, mvars>>

\* mutant of Merge: the merge does not wait for the workers still running
MergeEarly ==
    /\ cpc = "map"
    /\ data_buckets # <<>>
    /\ data' = MergeBuckets(data_buckets)
    /\ cpc' = "done"
    /\ UNCHANGED <<svars, X, NUM_PROCESSES, buckets, pending, data_buckets,
                   avars, ovars, fvars, mvars>>

\* core.py lines 672-680: every worker has returned; pool.map raises the
\* exception of the first bucket that failed, else the results are merged
Merge ==
    /\ cpc = "map"
    /\ pending = {}
    /\ IF failed = {}
       THEN /\ data' = MergeBuckets(data_buckets)
            /\ cpc' = "done"
            /\ error' = error
       ELSE LET b == CHOOSE f \in failed : \A g \in failed : f <= g
                bucket == buckets[b + 1]
            IN  /\ data' = data
                /\ cpc' = "raised"
                /\ error' = ConvertError(bucket.X, bucket.y,
                                         bucket.X_tokenized)
    /\ UNCHANGED <<svars, X, NUM_PROCESSES, buckets, pending, data_buckets,
                   avars, ovars, failed, named, mvars>>

NextParallel ==
    \/ SequentialConvert
    \/ Partition
    \/ WorkerReturn
    \/ Merge

SpecParallel == InitParallel /\ [][NextParallel]_vars

\* ------------------------------------ _parallel_convert on any arguments
\* the examples a caller may put in X_tokenized (the third is the bare
\* string 'ab') or in X
ShapePool(as_tokenized) ==
    IF as_tokenized
    THEN {ListOfStr(<<"a">>), ListOfStr(<<"a", "b">>), Str(<<"a", "b">>),
          ListOfList(<<"a", "b">>), NotASequence}
    ELSE {Str(<<"a">>), Str(<<"A", "b">>), ListOfStr(<<"a">>), NotASequence}

\* the labels of n examples: example i is labelled i
Labels(n) == [k \in 1..n |-> k - 1]

\* the weights of n examples: example i weighs i + 1
Weights(n) == [k \in 1..n |-> k]

\* _parallel_convert (core.py lines 637-680) called with is_training False
\* on examples of any shape, with or without y and sample_weight
InitConvert ==
    /\ cpc = "start"
    /\ tokenized \in BOOLEAN
    /\ X \in SeqsOf(ShapePool(tokenized), 1, MaxShapes)
    /\ \E given \in {<<FALSE, FALSE>>, <<FALSE, TRUE>>, <<TRUE, TRUE>>} :
          /\ y = IF given[1] THEN Some(Labels(Len(X))) ELSE None
          /\ sample_weight = IF given[2] THEN Some(Weights(Len(X))) ELSE None
    /\ NUM_PROCESSES \in 1..MaxProcesses
    /\ max_seq_length = MaxLen
    /\ truncate_method = "LIFO"
    /\ is_training = FALSE
    /\ probs = <<30, 30, 30>>
    /\ self_p = Normalised(probs)
    /\ ConversionStarts
    /\ NoSampling
    /\ FreshModule

SpecConvert == InitConvert /\ [][NextParallel]_vars

\* ------------------------------------------------ fit, predict and score
\* the batch sizes a caller may ask for
BatchSizes == {2, 3}

\* the lengths the device list self._gpu_ids may have
GpuCounts == {0, 2}

\* the inference attributes of RecBERTLM (rec_bert.py lines 30-36)
InferAttributes == {"max_seq_length", "init_checkpoint"}

\* self.data as an earlier call left it
OldData == [key \in {"input_ids"} |-> << <<2, 2, 2>> >>]

\* the examples given to a method: fit gets examples of one token, which
\* get no edit budget
MethodPool(called, as_tokenized) ==
    IF as_tokenized
    THEN {ListOfStr(<<"a">>), ListOfList(<<"a", "b">>)}
         \cup (IF called = "fit" THEN {} ELSE {ListOfStr(<<"a", "b">>)})
    ELSE {Str(<<"A">>), NotASequence}
         \cup (IF called = "fit" THEN {} ELSE {Str(<<"a", "b">>)})

\* mutant of DeviceCheckFails: the batch size is not checked
DeviceCheckMissing(size, gpus) == FALSE

\* core.py lines 277-281, 338-342, 391-395: the assertion on batch_size fails
DeviceCheckFails(size, gpus) == gpus > 0 /\ size % gpus # 0

\* mutant of MissingAttributes: the first missing attribute only
MissingAttributesOneAtATime(built, unset) ==
    IF built \/ unset = {} THEN {}
    ELSE {CHOOSE a \in unset : TRUE}

\* core.py lines 345-350: the inference attributes found missing
MissingAttributes(built, unset) ==
    IF built THEN {} ELSE {a \in InferAttributes : a \in unset}

\* a method of the module is called: fit (core.py line 230), predict
\* (rec_bert.py line 77) or score (core.py line 371)
InitModule ==
    /\ cpc = "called"
    /\ method \in {"fit", "predict", "score"}
    /\ tokenized \in BOOLEAN
    /\ X \in SeqsOf(MethodPool(method, tokenized), 1, MaxExamples)
    /\ y \in (IF method = "score" THEN {None, Some(Labels(Len(X)))}
              ELSE {None})
    /\ sample_weight \in (IF method = "fit"
                          THEN {None, Some(Weights(Len(X)))}
                          ELSE {None})
    /\ is_training = (method = "fit")
    /\ NUM_PROCESSES \in {1, 2}
    /\ max_seq_length \in {1, MaxLen}
    /\ truncate_method = "LIFO"
    /\ probs = <<30, 0, 0>>
    /\ self_p = Normalised(probs)
    /\ method = "fit" =>
          NoBudget(X, tokenized, max_seq_length, truncate_method, probs)
    /\ n_gpus \in GpuCounts
    /\ graph_built \in BOOLEAN
    /\ none_attrs \in SUBSET InferAttributes
    /\ "max_seq_length" \in none_attrs => (~graph_built /\ method # "fit")
    /\ self_data = IF graph_built THEN Some(OldData) ELSE None
    /\ batch_size = 0
    /\ on_predict = FALSE
    /\ self_input_tokens = None
    /\ self_tokenized = None
    /\ self_X_target = None
    /\ rep_preds = <<>> /\ add_preds = <<>> /\ del_preds = <<>>
    /\ outputs = None
    /\ ConversionStarts
    /\ NoSampling

\* core.py lines 275-286: fit up to its call of _parallel_convert
Fit ==
    /\ cpc = "called"
    /\ method = "fit"
    /\ \E size \in BatchSizes :
         /\ batch_size' = size
         /\ IF DeviceCheckFails(size, n_gpus)
            THEN cpc' = "raised" /\ error' = "AssertionError"
            ELSE cpc' = "start" /\ error' = error
    /\ UNCHANGED <<svars, X, NUM_PROCESSES, buckets, pending, data_buckets,
                   data, avars, ovars, failed, named, method, n_gpus, graph_built,
                   none_attrs, on_predict, self_data, self_input_tokens,
                   self_tokenized, self_X_target>>

\* rec_bert.py line 90 and core.py lines 336-364: predict up to its call of
\* _parallel_convert
Predict ==
    /\ cpc = "called"
    /\ method = "predict"
    /\ on_predict' = TRUE
    /\ \E size \in BatchSizes :
         /\ batch_size' = size
         /\ IF DeviceCheckFails(size, n_gpus)
            THEN cpc' = "raised" /\ error' = "AssertionError"
                 /\ named' = named
            ELSE IF MissingAttributes(graph_built, none_attrs) # {}
            THEN cpc' = "raised" /\ error' = "ValueError"
                 /\ named' = MissingAttributes(graph_built, none_attrs)
            ELSE cpc' = "start" /\ error' = error /\ named' = named
    /\ UNCHANGED <<svars, X, NUM_PROCESSES, buckets, pending, data_buckets,
                   data, avars, ovars, failed, method, n_gpus, graph_built,
                   none_attrs, self_data, self_input_tokens, self_tokenized,
                   self_X_target>>

\* core.py lines 387-417: score up to its call of _parallel_convert
Score ==
    /\ cpc = "called"
    /\ method = "score"
    /\ IF y = None
       THEN cpc' = "raised" /\ error' = "AssertionError"
            /\ UNCHANGED <<batch_size, named>>
       ELSE \E size \in BatchSizes :
              /\ batch_size' = size
              /\ IF DeviceCheckFails(size, n_gpus)
                 THEN cpc' = "raised" /\ error' = "AssertionError"
                      /\ named' = named
                 ELSE IF MissingAttributes(graph_built, none_attrs) # {}
                 THEN cpc' = "raised" /\ error' = "ValueError"
                      /\ named' = MissingAttributes(graph_built, none_attrs)
                 ELSE cpc' = "start" /\ error' = error /\ named' = named
    /\ UNCHANGED <<svars, X, NUM_PROCESSES, buckets, pending, data_buckets,
                   data, avars, ovars, failed, method, n_gpus, graph_built,
                   none_attrs, on_predict, self_data, self_input_tokens,
                   self_tokenized, self_X_target>>

\* core.py lines 285-286, 363-369: the converted data is stored in
\* self.data and the graph is built and run; when predict's graph has run,
\* _get_predict_outputs reads self._input_tokens (rec_bert.py line 356),
\* which raises if the attribute was never set, and predict resets
\* _on_predict only when nothing was raised (rec_bert.py lines 91-93)
Finish ==
    /\ cpc = "done"
    /\ method # "none"
    /\ self_data' = Some(data)
    /\ graph_built' = TRUE
    /\ IF method = "predict" /\ self_input_tokens = None
       THEN cpc' = "raised" /\ error' = "AttributeError"
            /\ on_predict' = on_predict
       ELSE cpc' = "returned" /\ error' = error
            /\ on_predict' = FALSE
    /\ UNCHANGED <<svars, X, NUM_PROCESSES, buckets, pending, data_buckets,
                   data, avars, ovars, failed, named, method, batch_size, n_gpus,
                   none_attrs, self_input_tokens, self_tokenized,
                   self_X_target>>

NextModule ==
    \/ Fit
    \/ Predict
    \/ Score
    \/ SequentialConvert
    \/ Partition
    \/ WorkerReturn
    \/ Merge
    \/ Finish

SpecModule == InitModule /\ [][NextModule]_vars

\* ------------------------------------------------------ RecBERTLM.__init__
\* the values (percent) a caller may pass as rep_prob, add_prob, del_prob
ProbArgs == {-30, 0, 30, 60}

\* RecBERTLM(...) is called with any three probabilities
InitConstruct ==
    /\ pc = "__init__"
    /\ probs \in [1..3 -> ProbArgs]
    /\ self_p = <<>>
    /\ input_ids = <<>>
    /\ rep_label_ids = <<>> /\ add_label_ids = <<>> /\ del_label_ids = <<>>
    /\ max_rep = 0 /\ max_add = 0 /\ max_del = 0
    /\ vocab_size = Cardinality(DOMAIN Vocab)
    /\ add_done = 0 /\ rep_done = 0 /\ del_done = 0
    /\ entry_ids = <<>>
    /\ rep_entry_ids = <<>>
    /\ example = <<>>
    /\ max_seq_length = MaxLen
    /\ truncate_method = "LIFO"
    /\ is_training = FALSE
    /\ NoConversion

\* rec_bert.py lines 58-70: the probabilities are stored, their sum is
\* asserted to lie strictly between 0 and 1, and they are normalised
Construct ==
    /\ pc = "__init__"
    /\ IF SumInRange(probs)
       THEN pc' = "constructed" /\ self_p' = Normalised(probs)
       ELSE pc' = "rejected" /\ self_p' = self_p
    /\ UNCHANGED <<input_ids, rep_label_ids, add_label_ids, del_label_ids,
                   add_done, rep_done, del_done, rep_entry_ids, vocab_size,
                   entry_ids, example, max_seq_length, truncate_method,
                   is_training, probs, max_rep, max_add, max_del, cvars,
                   avars, ovars, fvars, mvars>>

SpecConstruct == InitConstruct /\ [][Construct]_vars

\* --------------------------------------------------- _get_predict_outputs
\* tokenizer.convert_ids_to_tokens on one id
IdToken(id) == CHOOSE t \in DOMAIN Vocab : Vocab[t] = id

\* a python string as the sequence of its characters
TokenChars(t) == IF t = "[PAD]" THEN <<"[", "P", "A", "D", "]">> ELSE <<t>>

\* the characters of a text: its words, one blank between two words
RECURSIVE TextChars(_)
TextChars(words) ==
    IF words = <<>> THEN <<>>
    ELSE IF Len(words) = 1 THEN TokenChars(words[1])
    ELSE TokenChars(Head(words)) \o <<" ">> \o TextChars(Tail(words))

\* python text[a:b]
Slice(text, a, b) == SubSeq(text, a + 1, b)

\* rec_bert.py lines 364-365, 387-388: '{rep:%s->%s}' % (old, new)
RepNote(old, new) ==
    <<"{", "r", "e", "p", ":">> \o old \o <<"-", ">">> \o new \o <<"}">>

\* rec_bert.py lines 368, 396: '{del:%s}' % old
DelNote(old) == <<"{", "d", "e", "l", ":">> \o old \o <<"}">>

\* rec_bert.py lines 373, 403: '{add:%s}' % new
AddNote(new) == <<"{", "a", "d", "d", ":">> \o new \o <<"}">>

\* rec_bert.py lines 385, 402: _token.replace('##', '') on a word piece
StripContinuation(chars) ==
    IF Len(chars) >= 2 /\ chars[1] = "#" /\ chars[2] = "#"
    THEN SubSeq(chars, 3, Len(chars))
    ELSE chars

\* self._rep_prob > 0 for a weight held as a fraction
Positive(w) == w[1] * w[2] > 0

\* utils.align_tokens_with_text with do_lower_case: the span <<start, end>>
\* of the text every token covers, found left to right from position from
RECURSIVE Align(_, _, _)
Align(tokens, text, from) ==
    IF tokens = <<>> THEN <<>>
    ELSE LET tok == TokenChars(Head(tokens))
             hits == {b \in from..(Len(text) - Len(tok)) :
                         \A j \in 1..Len(tok) : Lower(text[b + j]) = tok[j]}
         IN  IF hits = {} THEN <<>>
             ELSE LET b == CHOOSE h \in hits : \A g \in hits : h <= g
                  IN  << <<b, b + Len(tok)>> >>
                      \o Align(Tail(tokens), text, b + Len(tok))

\* mutant of TokenLoop: the del prediction is looked at before the rep one
RECURSIVE TokenLoopDelFirst(_, _, _, _, _, _)
TokenLoopDelFirst(out, n, i, input_length, preds, p) ==
    IF i >= input_length THEN [out |-> out, n |-> n]
    ELSE LET marked ==
                 IF Positive(p[3]) /\ At(preds.del, i) # 0
                 THEN SetAt(out, i + n, DelNote(At(out, i + n)))
                 ELSE IF Positive(p[1]) /\ At(preds.rep, i) # 0
                 THEN SetAt(out, i + n,
                            RepNote(At(out, i + n),
                                    TokenChars(IdToken(At(preds.rep, i)))))
                 ELSE out
             adds == Positive(p[2]) /\ At(preds.add, i) # 0
             added ==
                 IF adds
                 THEN InsertAt(marked, i + 1 + n,
                               AddNote(TokenChars(IdToken(At(preds.add, i)))))
                 ELSE marked
         IN  TokenLoopDelFirst(added, IF adds THEN n + 1 ELSE n, i + 1,
                               input_length, preds, p)

\* mutant of TokenLoop: the offset n is not advanced by an insertion
RECURSIVE TokenLoopFixedOffset(_, _, _, _, _, _)
TokenLoopFixedOffset(out, n, i, input_length, preds, p) ==
    IF i >= input_length THEN [out |-> out, n |-> n]
    ELSE LET marked ==
                 IF Positive(p[1]) /\ At(preds.rep, i) # 0
                 THEN SetAt(out, i + n,
                            RepNote(At(out, i + n),
                                    TokenChars(IdToken(At(preds.rep, i)))))
                 ELSE IF Positive(p[3]) /\ At(preds.del, i) # 0
                 THEN SetAt(out, i + n, DelNote(At(out, i + n)))
                 ELSE out
             adds == Positive(p[2]) /\ At(preds.add, i) # 0
             added ==
                 IF adds
                 THEN InsertAt(marked, i + 1 + n,
                               AddNote(TokenChars(IdToken(At(preds.add, i)))))
                 ELSE marked
         IN  TokenLoopFixedOffset(added, n, i + 1, input_length, preds, p)

\* rec_bert.py lines 359-377: the loop over the positions of a tokenized
\* example, from position i with offset n; preds holds the three rows. The
\* result is the token list and the offset when the loop ends.
RECURSIVE TokenLoop(_, _, _, _, _, _)
TokenLoop(out, n, i, input_length, preds, p) ==
    IF i >= input_length THEN [out |-> out, n |-> n]
    ELSE LET marked ==
                 IF Positive(p[1]) /\ At(preds.rep, i) # 0
                 THEN SetAt(out, i + n,
                            RepNote(At(out, i + n),
                                    TokenChars(IdToken(At(preds.rep, i)))))
                 ELSE IF Positive(p[3]) /\ At(preds.del, i) # 0
                 THEN SetAt(out, i + n, DelNote(At(out, i + n)))
                 ELSE out
             adds == Positive(p[2]) /\ At(preds.add, i) # 0
             added ==
                 IF adds
                 THEN InsertAt(marked, i + 1 + n,
                               AddNote(TokenChars(IdToken(At(preds.add, i)))))
                 ELSE marked
         IN  TokenLoop(added, IF adds THEN n + 1 ELSE n, i + 1, input_length,
                       preds, p)

\* mutant of TextLoop: the offset n is not advanced by a rep or del annotation
RECURSIVE TextLoopStaleOffset(_, _, _, _, _, _, _)
TextLoopStaleOffset(text, n, i, input_length, preds, p, spans) ==
    IF i >= input_length THEN [text |-> text, n |-> n]
    ELSE LET start_ptr == At(spans, i)[1] + n
             end_ptr == At(spans, i)[2] + n
             old == Slice(text, start_ptr, end_ptr)
             note ==
                 IF Positive(p[1]) /\ At(preds.rep, i) # 0
                 THEN RepNote(old, StripContinuation(
                                  TokenChars(IdToken(At(preds.rep, i)))))
                 ELSE IF Positive(p[3]) /\ At(preds.del, i) # 0
                 THEN DelNote(old)
                 ELSE old
             marked == Slice(text, 0, start_ptr) \o note
                       \o Slice(text, end_ptr, Len(text))
             adds == Positive(p[2]) /\ At(preds.add, i) # 0
             token == AddNote(StripContinuation(
                          TokenChars(IdToken(At(preds.add, i)))))
             ptr == At(spans, i)[2] + n
             added ==
                 IF adds
                 THEN Slice(marked, 0, ptr) \o token
                      \o Slice(marked, ptr, Len(marked))
                 ELSE marked
         IN  TextLoopStaleOffset(added, IF adds THEN n + Len(token) ELSE n,
                                 i + 1, input_length, preds, p, spans)

\* rec_bert.py lines 378-413: the loop over the positions of a text, from
\* position i with character offset n; spans is the alignment. The result
\* is the text and the offset when the loop ends.
RECURSIVE TextLoop(_, _, _, _, _, _, _)
TextLoop(text, n, i, input_length, preds, p, spans) ==
    IF i >= input_length THEN [text |-> text, n |-> n]
    ELSE LET start_ptr == At(spans, i)[1] + n
             end_ptr == At(spans, i)[2] + n
             old == Slice(text, start_ptr, end_ptr)
             note ==
                 IF Positive(p[1]) /\ At(preds.rep, i) # 0
                 THEN RepNote(old, StripContinuation(
                                  TokenChars(IdToken(At(preds.rep, i)))))
                 ELSE IF Positive(p[3]) /\ At(preds.del, i) # 0
                 THEN DelNote(old)
                 ELSE old
             marked == Slice(text, 0, start_ptr) \o note
                       \o Slice(text, end_ptr, Len(text))
             n1 == n + Len(note) - Len(old)
             adds == Positive(p[2]) /\ At(preds.add, i) # 0
             token == AddNote(StripContinuation(
                          TokenChars(IdToken(At(preds.add, i)))))
             ptr == At(spans, i)[2] + n1
             added ==
                 IF adds
                 THEN Slice(marked, 0, ptr) \o token
                      \o Slice(marked, ptr, Len(marked))
                 ELSE marked
         IN  TextLoop(added, IF adds THEN n1 + Len(token) ELSE n1, i + 1,
                      input_length, preds, p, spans)

\* rec_bert.py lines 351-413: the prediction made for example ex_id
PredictOutput(ex_id) ==
    LET input_length == NonZeroCount(At(self_data[1]["input_ids"], ex_id))
        tokens == At(self_input_tokens[1], ex_id)
        preds == [rep |-> At(rep_preds, ex_id),
                  add |-> At(add_preds, ex_id),
                  del |-> At(del_preds, ex_id)]
    IN  IF self_tokenized[1]
        THEN TokenLoop([j \in 1..Len(tokens) |-> TokenChars(tokens[j])],
                       0, 0, input_length, preds, self_p).out
        ELSE LET text == TextChars(At(self_X_target[1], ex_id).tokens)
             IN  TextLoop(text, 0, 0, input_length, preds, self_p,
                          Align(tokens, text, 0)).text

\* how many examples predict is given
PredictedCounts == {1, 2}

\* the examples predict is given: one word or token, and two
OutputPool(as_tokenized) ==
    IF as_tokenized
    THEN {ListOfStr(<<"a">>), ListOfStr(<<"b", "a">>)}
    ELSE {Str(<<"a">>), Str(<<"A", "b">>)}

\* the ids the graph may predict at a position: none, or 'b' as replacement
RepPreds == {0, 2}

\* the ids the graph may predict for insertion: none, or 'a'
AddPreds == {0, 1}

\* the deletion flags the graph may predict
DelPreds == {0, 1}

\* predict (core.py lines 363-369) has converted its examples, stored the
\* data and run the graph; the predictions are about to be mapped back. The
\* module holds what the conversion left in it: the tokens, the flag and the
\* target on the sequential path, nothing on the parallel path.
InitOutputs ==
    /\ cpc = "ran"
    /\ method = "predict"
    /\ tokenized \in BOOLEAN
    /\ \E n \in PredictedCounts : X \in [1..n -> OutputPool(tokenized)]
    /\ y = None /\ sample_weight = None
    /\ NUM_PROCESSES \in {1, 2}
    /\ max_seq_length \in {1, 2}
    /\ truncate_method = "LIFO"
    /\ is_training = FALSE
    /\ probs \in {<<30, 30, 30>>, <<0, 30, 30>>, <<30, 0, 0>>}
    /\ self_p = Normalised(probs)
    /\ data = Convert(X, tokenized, max_seq_length, truncate_method)
    /\ self_data = Some(data)
    /\ graph_built = TRUE /\ none_attrs = {}
    /\ n_gpus = 0
    /\ batch_size = IF NUM_PROCESSES <= 1 THEN Len(X) ELSE 2
    /\ on_predict = TRUE
    /\ self_input_tokens =
          IF NUM_PROCESSES <= 1
          THEN Some(RetainedTokens(X, tokenized, max_seq_length,
                                   truncate_method))
          ELSE None
    /\ self_tokenized = IF NUM_PROCESSES <= 1 THEN Some(tokenized) ELSE None
    /\ self_X_target = IF NUM_PROCESSES <= 1 THEN Some(X) ELSE None
    /\ rep_preds \in [1..Len(X) -> [1..max_seq_length -> RepPreds]]
    /\ add_preds \in [1..Len(X) -> [1..max_seq_length -> AddPreds]]
    /\ del_preds \in [1..Len(X) -> [1..max_seq_length -> DelPreds]]
    /\ outputs = None
    /\ buckets = <<>> /\ pending = {} /\ data_buckets = <<>>
    /\ failed = {} /\ error = "none" /\ named = {}
    /\ NoSampling

\* rec_bert.py lines 339-418 and 91-93: the predictions of every example are
\* mapped back and predict leaves prediction mode; reading an attribute the
\* conversion never set raises and predict is left as it is
GetPredictOutputs ==
    /\ cpc = "ran"
    /\ method = "predict"
    /\ IF self_input_tokens = None
       THEN /\ cpc' = "raised"
            /\ error' = "AttributeError"
            /\ UNCHANGED <<outputs, on_predict>>
       ELSE /\ outputs' =
                   Some([k \in 1..Len(self_data[1]["input_ids"]) |->
                            PredictOutput(k - 1)])
            /\ cpc' = "returned"
            /\ error' = error
            /\ on_predict' = FALSE
    /\ UNCHANGED <<svars, X, NUM_PROCESSES, buckets, pending, data_buckets,
                   data, avars, rep_preds, add_preds, del_preds, failed,
                   named, method, batch_size, n_gpus, graph_built,
                   none_attrs, self_data, self_input_tokens, self_tokenized,
                   self_X_target>>

SpecOutputs == InitOutputs /\ [][GetPredictOutputs]_vars

\* ------------------------------------ one module, training and answering
\* a module built with some probability triple either encodes an example
\* (rec_bert.py lines 153-198) or maps predictions back (lines 339-418)
InitEdits == InitConvertX \/ InitOutputs

NextEdits ==
    \/ ConvertX
    \/ AddStep
    \/ AddExit
    \/ RepStep
    \/ RepExit
    \/ DelStep
    \/ DelExit
    \/ GetPredictOutputs

SpecEdits == InitEdits /\ [][NextEdits]_vars

\* ------------------------------------------------------------------ claims
\* _parallel_convert has returned from its parallel path
ParallelDone == cpc = "done" /\ NUM_PROCESSES > 1

\* the data the worker of bucket b handed back
BucketOutput(b) ==
    (CHOOSE r \in {data_buckets[k] : k \in 1..Len(data_buckets)} : r.id = b).data

C3_CompletionOrderIrrelevant ==
    ParallelDone =>
        data = [key \in DOMAIN data |->
                   Transform([k \in 1..Len(buckets) |->
                                 Convert(XTarget(buckets[k].X,
                                                 buckets[k].X_tokenized),
                                         tokenized, max_seq_length,
                                         truncate_method)[key]])]

\* C3 witness: a merge of results handed back out of bucket order, the
\* first two of them different
C3_Witness ==
    /\ ParallelDone
    /\ Len(data_buckets) >= 2
    /\ data_buckets[1].id > data_buckets[2].id
    /\ data_buckets[1].data # data_buckets[2].data

\* sample_wrong_tokens is running or has returned
InSampler == pc \in {"add", "rep", "del", "done"} /\ is_training

\* sample_wrong_tokens has returned
Returned == pc = "done" /\ is_training

\* number of positions of del flagged 1
DelCount(del) == Cardinality({k \in 1..Len(del) : del[k] = 1})

\* C4: every example _convert_X encodes has ids of length max_seq_length and
\* three label sequences of one length; in sample_wrong_tokens, after every
\* add, rep or del step and at return, the four arrays have the length the
\* ids had on entry.
C4_FixedLength ==
    /\ pc # "convert_X" =>
          /\ Len(input_ids) = max_seq_length
          /\ Len(rep_label_ids) = Len(add_label_ids)
          /\ Len(add_label_ids) = Len(del_label_ids)
    /\ InSampler =>
          /\ Len(input_ids) = Len(entry_ids)
          /\ Len(rep_label_ids) = Len(entry_ids)
          /\ Len(add_label_ids) = Len(entry_ids)
          /\ Len(del_label_ids) = Len(entry_ids)

\* C4 witness: a truncated example encoded in training, returned after an
\* add, a rep and a del step
C4_Witness ==
    /\ Returned
    /\ Len(example) > max_seq_length
    /\ add_done > 0 /\ rep_done > 0 /\ del_done > 0

\* C5: at return the rep-labelled positions are at most max_rep, the
\* add-labelled at most max_add and the del-flagged at most max_del.
C5_WithinBudget ==
    Returned =>
        /\ NonZeroCount(rep_label_ids) <= max_rep
        /\ NonZeroCount(add_label_ids) <= max_add
        /\ DelCount(del_label_ids) <= max_del

\* C5 witness: a return where every budget is positive and fully used
C5_Witness ==
    /\ Returned
    /\ max_rep > 0 /\ NonZeroCount(rep_label_ids) = max_rep
    /\ max_add > 0 /\ NonZeroCount(add_label_ids) = max_add
    /\ max_del > 0 /\ DelCount(del_label_ids) = max_del

\* C6: the add phase realizes max_add merges unless no candidate pair is
\* left when it stops, and the rep phase realizes
\* min(max_rep, non-pad count after the add phase) replacements.
C6_RepAddExhaustive ==
    /\ (pc = "rep" /\ is_training) =>
          /\ NonZeroCount(add_label_ids) = add_done
          /\ add_done = max_add \/ AddCands(input_ids, add_label_ids) = {}
    /\ (pc \in {"del", "done"} /\ is_training) =>
          /\ NonZeroCount(rep_label_ids) = rep_done
          /\ rep_done = Min(max_rep, NonZeroCount(rep_entry_ids))

\* C6 witness: the rep phase ended short of its budget, after an add phase
\* that ended short of its own
C6_Witness ==
    /\ pc = "del" /\ is_training
    /\ 0 < rep_done /\ rep_done < max_rep
    /\ 0 < add_done /\ add_done < max_add

\* C7 (as claimed): at return, fewer than max_del del-flagged positions
\* means no non-pad position without a del flag is left.
C7_DelOnlyStopsExhausted ==
    Returned =>
        (DelCount(del_label_ids) < max_del =>
            DelCands(input_ids, del_label_ids) = {})

\* C7 (amended): at return, fewer than max_del del-flagged positions means
\* the sequence was full (last id non-zero) or no non-pad position without a
\* del flag was left; the del-flagged positions are the realized del edits.
C7_DelStopsFullOrExhausted ==
    Returned =>
        /\ DelCount(del_label_ids) = del_done
        /\ DelCount(del_label_ids) < max_del =>
              \/ At(input_ids, Len(input_ids) - 1) # 0
              \/ DelCands(input_ids, del_label_ids) = {}

\* C7 witness: the del phase stopped short of its budget on a full sequence
\* that still had candidates, after at least one del edit
C7_Witness ==
    /\ Returned
    /\ 0 < del_done /\ del_done < max_del
    /\ At(input_ids, Len(input_ids) - 1) # 0
    /\ DelCands(input_ids, del_label_ids) # {}

\* C8: at return no position has both a non-zero rep label and del flag 1.
C8_RepDelExclusive ==
    Returned =>
        \A k \in 1..Len(input_ids) :
            ~(rep_label_ids[k] # 0 /\ del_label_ids[k] = 1)

\* C8 witness: a return with a rep-labelled position right after a
\* del-flagged one
C8_Witness ==
    /\ Returned
    /\ \E k \in 1..(Len(input_ids) - 1) :
          del_label_ids[k] = 1 /\ rep_label_ids[k + 1] # 0

\* the rep phase has just ended
RepPhaseOver == pc = "del" /\ del_done = 0 /\ is_training

\* C9 (as claimed): after the rep phase every rep-labelled position holds as
\* label the id it had when the phase began, and its id differs from the
\* label; on ids = [5,7,9,0,0], vocab_size 100, budget (1,0,0), exactly one of
\* positions 0..2 is so labelled.
C9_RepRecordsOriginalAndDiffers ==
    RepPhaseOver =>
        /\ \A i \in 0..(Len(input_ids) - 1) :
              At(rep_label_ids, i) # 0 =>
                  /\ At(rep_label_ids, i) = At(rep_entry_ids, i)
                  /\ At(input_ids, i) # At(rep_label_ids, i)
        /\ (entry_ids = <<5, 7, 9, 0, 0>> /\ max_rep = 1) =>
              Cardinality({i \in 0..2 : At(rep_label_ids, i) # 0}) = 1

\* C10: one add step picks i with ids[i], ids[i+1] non-pad and
\* add_labels[i] = add_labels[i+1] = 0, records the old ids[i+1] in
\* add_labels[i], shifts the entries after i+1 left by one in all four arrays
\* and ends each with 0: same length, one non-pad id fewer, ids[i] unchanged.
C10_AddStepEffect ==
    [][(pc = "add" /\ add_done' = add_done + 1) =>
        \E i \in 0..(Len(input_ids) - 2) :
            LET L == Len(input_ids)
                Shifted(old, new) ==
                    /\ Len(new) = L
                    /\ \A k \in (i + 1)..(L - 2) : At(new, k) = At(old, k + 1)
                    /\ At(new, L - 1) = 0
            IN  /\ At(input_ids, i) # 0 /\ At(input_ids, i + 1) # 0
                /\ At(add_label_ids, i) = 0 /\ At(add_label_ids, i + 1) = 0
                /\ At(add_label_ids', i) = At(input_ids, i + 1)
                /\ \A k \in 0..(i - 1) :
                      At(add_label_ids', k) = At(add_label_ids, k)
                /\ \A k \in 0..i :
                      /\ At(input_ids', k) = At(input_ids, k)
                      /\ At(rep_label_ids', k) = At(rep_label_ids, k)
                      /\ At(del_label_ids', k) = At(del_label_ids, k)
                /\ Shifted(input_ids, input_ids')
                /\ Shifted(rep_label_ids, rep_label_ids')
                /\ Shifted(add_label_ids, add_label_ids')
                /\ Shifted(del_label_ids, del_label_ids')
                /\ NonZeroCount(input_ids') = NonZeroCount(input_ids) - 1
    ]_vars

\* C10 witness: the add step on ids = [5,7,9,0,0] that merged 7 into 5
C10_Witness ==
    /\ entry_ids = <<5, 7, 9, 0, 0>>
    /\ add_done = 1
    /\ input_ids = <<5, 9, 0, 0, 0>>
    /\ add_label_ids = <<7, 0, 0, 0, 0>>

\* ------------------------------------------------- claims on the conversion
\* the examples have been dealt to the buckets
Partitioned == NUM_PROCESSES > 1 /\ cpc # "start"

\* the number of examples i < n with i mod n_buckets = b
BucketSize(n, b, n_buckets) == (n - b + n_buckets - 1) \div n_buckets

\* the column an argument must have in bucket b: its entries at the indices
\* b, b + n_buckets, b + 2 n_buckets, ... in that order
RoundRobinColumn(arg, b, n_buckets) ==
    IF arg = None THEN None
    ELSE Some([j \in 1..BucketSize(Len(arg[1]), b, n_buckets) |->
                  At(arg[1], b + (j - 1) * n_buckets)])

\* C12: the parallel path makes n_buckets = max(min(n_inputs, n_workers), 1)
\* buckets; example i of X, y, sample_weight and X_tokenized alike is in
\* bucket (i mod n_buckets), in input order; the bucket sizes differ by at
\* most one and the columns of a bucket are aligned.
C12_RoundRobinBuckets ==
    Partitioned =>
        LET n_buckets == Max(Min(Len(X), NUM_PROCESSES), 1)
        IN  /\ Len(buckets) = n_buckets
            /\ \A b \in 0..(n_buckets - 1) :
                  /\ buckets[b + 1].X = RoundRobinColumn(XArg, b, n_buckets)
                  /\ buckets[b + 1].X_tokenized =
                         RoundRobinColumn(XTokenizedArg, b, n_buckets)
                  /\ buckets[b + 1].y = RoundRobinColumn(y, b, n_buckets)
                  /\ buckets[b + 1].sample_weight =
                         RoundRobinColumn(sample_weight, b, n_buckets)
            /\ \A b, c \in 1..n_buckets :
                  /\ Len(XTarget(buckets[b].X, buckets[b].X_tokenized))
                        - Len(XTarget(buckets[c].X, buckets[c].X_tokenized))
                        \in {-1, 0, 1}
                  /\ buckets[b].y # None =>
                        Len(buckets[b].y[1]) =
                            Len(XTarget(buckets[b].X, buckets[b].X_tokenized))
                  /\ buckets[b].sample_weight # None =>
                        Len(buckets[b].sample_weight[1]) =
                            Len(XTarget(buckets[b].X, buckets[b].X_tokenized))

\* C12 witness: three tokenized examples with labels and weights dealt to
\* two buckets
C12_Witness ==
    /\ Partitioned
    /\ tokenized
    /\ Len(X) = 3
    /\ Len(buckets) = 2
    /\ y # None /\ sample_weight # None
    /\ buckets[1].y = Some(<<0, 2>>)
    /\ buckets[2].sample_weight = Some(<<2>>)
    /\ X[1] # X[3]

\* the sequential path has finished on examples only (no y)
SequentialOver ==
    NUM_PROCESSES <= 1 /\ cpc \in {"done", "raised"} /\ y = None

\* a tokenized example whose first element is not a string, or an
\* untokenized example that is not a string
NotSingleSentence(x) ==
    IF tokenized THEN x.shape = "list_of_list" ELSE x.shape # "str"

\* C13: _convert_x raises ValueError for a tokenized example whose first
\* element is not a string and for an untokenized example that is not a
\* string; in the sequential path the error leaves convert and no converted
\* data is returned.
C13_BadExampleRaises ==
    /\ \A k \in 1..Len(X) :
          NotSingleSentence(X[k]) =>
              ConvertExample(X[k], tokenized).error = "ValueError"
    /\ (SequentialOver /\ \E k \in 1..Len(X) : NotSingleSentence(X[k])) =>
          /\ cpc = "raised"
          /\ error = "ValueError"
          /\ data = <<>>

\* C13 witness: a sequential conversion of tokenized examples, a list of
\* lists after a good example, has raised
C13_Witness ==
    /\ SequentialOver
    /\ tokenized
    /\ Len(X) >= 2
    /\ X[1].shape = "list_of_str"
    /\ X[2].shape = "list_of_list"
    /\ cpc = "raised"

\* C14: with tokenized input the encoder accepts an example only if it is a
\* sequence of strings; every other shape is rejected with ValueError.
C14_OnlyListsOfStringsAccepted ==
    (SequentialOver /\ tokenized) =>
        IF \A k \in 1..Len(X) : X[k].shape = "list_of_str"
        THEN cpc = "done"
        ELSE cpc = "raised" /\ error = "ValueError"

\* ---------------------------------------------------- claims on the methods
\* C17: if convert raises in the worker of any bucket, _parallel_convert
\* raises to the caller and yields no merged data: nothing partial is
\* returned or stored in self.data, whatever the other buckets produced.
C17_WorkerFailureAborts ==
    /\ [](failed # {} =>
            /\ cpc \in {"map", "raised"}
            /\ data = <<>>
            /\ cpc = "raised" => error \in {"ValueError", "AssertionError"})
    /\ [][failed # {} => self_data' = self_data]_vars

\* C17 witness: a parallel conversion in predict has raised although one of
\* the two workers handed back data
C17_Witness ==
    /\ method = "predict"
    /\ cpc = "raised"
    /\ Len(buckets) = 2
    /\ Cardinality(failed) = 1
    /\ Len(data_buckets) = 1
    /\ self_data = Some(OldData)

\* C18 as stated: predict before the graph is built with inference
\* attributes that are None raises one ValueError naming every one of them,
\* before any conversion; otherwise no such error is raised.
C18_MissingAttributesRaise ==
    [][(cpc = "called" /\ method = "predict") =>
          IF ~graph_built /\ none_attrs # {}
          THEN /\ cpc' = "raised"
               /\ error' = "ValueError"
               /\ named' = none_attrs
               /\ data' = data /\ buckets' = buckets
               /\ self_data' = self_data
               /\ graph_built' = graph_built
          ELSE error' # "ValueError"]_vars

\* C18 amended: the same, for a call whose batch_size passes the check
\* against the device list; a batch_size that fails it raises the
\* AssertionError first.
C18_MissingAttributesRaiseAfterDeviceCheck ==
    [][(cpc = "called" /\ method = "predict") =>
          IF n_gpus > 0 /\ batch_size' % n_gpus # 0
          THEN error' = "AssertionError"
          ELSE IF ~graph_built /\ none_attrs # {}
          THEN /\ cpc' = "raised"
               /\ error' = "ValueError"
               /\ named' = none_attrs
               /\ data' = data /\ buckets' = buckets
               /\ self_data' = self_data
               /\ graph_built' = graph_built
          ELSE error' # "ValueError" /\ cpc' = "start"]_vars

\* C18 witness: predict on a module with devices has raised the ValueError
\* that names both inference attributes
C18_Witness ==
    /\ method = "predict"
    /\ cpc = "raised"
    /\ error = "ValueError"
    /\ named = {"max_seq_length", "init_checkpoint"}
    /\ n_gpus = 2
    /\ batch_size = 2

\* C19: fit, predict and score reject a batch_size that the number of
\* devices (of a non-empty device list) does not divide, before any
\* conversion work, so self.data is left as it was.
C19_IndivisibleBatchRejected ==
    [][(/\ cpc = "called"
        /\ method = "score" => y # None
        /\ n_gpus > 0
        /\ batch_size' % n_gpus # 0)
       => /\ cpc' = "raised"
          /\ error' = "AssertionError"
          /\ self_data' = self_data
          /\ data' = data /\ buckets' = buckets
          /\ self_input_tokens' = self_input_tokens]_vars

\* C19 witness: fit on a module holding earlier data has been refused a
\* batch size of 3 on 2 devices
C19_Witness ==
    /\ method = "fit"
    /\ cpc = "raised"
    /\ error = "AssertionError"
    /\ batch_size = 3 /\ n_gpus = 2
    /\ self_data = Some(OldData)
    /\ data = <<>>

\* C20: after the conversion step of predict the module holds the truncated
\* token sequence of every input example, in input order, the tokenized flag
\* and the input target, whatever the number of worker processes.
C20_PredictRetainsTokens ==
    (method = "predict" /\ cpc = "done") =>
        /\ self_input_tokens =
              Some([k \in 1..Len(X) |->
                       TruncateSegments(
                           ConvertExample(X[k], tokenized).tokens,
                           max_seq_length, truncate_method)])
        /\ self_tokenized = Some(tokenized)
        /\ self_X_target = Some(X)

\* ---------------------------------------------- claims on the sampler, II
\* C16: sample_wrong_tokens never fails because candidates are missing: on
\* every fixed-length input and every budget, with vocab_size >= 2, no draw
\* is made from an empty choice and every loop either goes on or ends, so
\* the call returns, possibly with fewer edits than budgeted.
C16_NeverFailsForMissingCandidates ==
    (is_training /\ vocab_size >= 2) =>
        /\ pc # "error"
        /\ pc \in {"add", "rep", "del"} => ENABLED Next

\* C16 witness: an all-pad input with a budget for every edit has come back
\* without an edit
C16_Witness ==
    /\ Returned
    /\ \A k \in 1..Len(entry_ids) : entry_ids[k] = 0
    /\ max_add > 0 /\ max_rep > 0 /\ max_del > 0
    /\ add_done + rep_done + del_done = 0
    /\ input_ids = entry_ids

\* ------------------------------------------------ claims on the constructor
\* C15: constructing RecBERTLM fails when any of rep_prob, add_prob, del_prob
\* is negative or their sum is not strictly between 0 and 1; a triple of
\* non-negative values with sum in (0, 1) is accepted and normalised to
\* weights that sum to 1.
C15_OutOfRangeRejected ==
    LET legal == /\ \A k \in 1..3 : probs[k] >= 0
                 /\ AllProb(probs) > 0 /\ AllProb(probs) < 100
    IN  /\ (pc = "rejected") => ~legal
        /\ (pc = "constructed") =>
              /\ legal
              /\ self_p[1][1] + self_p[2][1] + self_p[3][1] = self_p[1][2]
              /\ \A k \in 1..3 : self_p[k][2] = self_p[1][2]

\* ---------------------------------------------- claims on the reconstructor
\* the predictions of every example are all zero
ZeroPreds ==
    \A k \in 1..Len(X) : \A j \in 1..max_seq_length :
        rep_preds[k][j] = 0 /\ add_preds[k][j] = 0 /\ del_preds[k][j] = 0

\* the examples as the caller passed them: the characters of every text, or
\* of every token of every list
OriginalInputs ==
    [k \in 1..Len(X) |->
        IF tokenized
        THEN [j \in 1..Len(X[k].tokens) |-> TokenChars(X[k].tokens[j])]
        ELSE TextChars(X[k].tokens)]

\* C11: in _get_predict_outputs, when the rep, add and del predictions of
\* every example are all zero, the output is the original input: the text
\* unchanged in untokenized mode, the token list unchanged in tokenized mode.
C11_ZeroPredictionsGiveInput ==
    (method = "predict" /\ cpc \in {"returned", "raised"} /\ ZeroPreds) =>
        outputs = Some(OriginalInputs)

\* ------------------------------------------------ claims on the encoder, II
\* _convert_X has returned from an example encoded with is_training False
Encoded == pc = "done" /\ ~is_training

\* C21: with is_training False, _convert_X returns for an example its token
\* ids right-padded with 0, no noise applied, and three empty label
\* sequences; the data convert returns holds input_ids only.
C21_InferenceEncoding ==
    Encoded =>
        LET tokens == TruncateSegments(example, max_seq_length,
                                       truncate_method)
            converted == Convert(<<ListOfStr(example)>>, TRUE, max_seq_length,
                                 truncate_method)
        IN  /\ Len(input_ids) = max_seq_length
            /\ \A k \in 1..Len(tokens) : input_ids[k] = Vocab[tokens[k]]
            /\ \A k \in (Len(tokens) + 1)..max_seq_length : input_ids[k] = 0
            /\ rep_label_ids = <<>>
            /\ add_label_ids = <<>>
            /\ del_label_ids = <<>>
            /\ DOMAIN converted = {"input_ids"}
            /\ converted["input_ids"] = <<input_ids>>

\* C21 witness: an example of two different tokens encoded for inference
\* into three ids, the last a pad
C21_Witness ==
    /\ Encoded
    /\ example = <<"b", "a">>
    /\ input_ids = <<2, 1, 0>>

\* ------------------------------------------------ claims on the sampler, II
\* C22: sample_wrong_tokens runs its loops in the order add, rep, del: no add
\* iteration follows a rep or del iteration, no rep iteration follows a del
\* iteration, and control only moves forward from one loop to the next.
C22_PhaseOrder ==
    [][/\ add_done' # add_done =>
            pc = "add" /\ rep_done = 0 /\ del_done = 0
       /\ rep_done' # rep_done => pc = "rep" /\ del_done = 0
       /\ del_done' # del_done => pc = "del"
       /\ pc' # pc => <<pc, pc'>> \in {<<"convert_X", "add">>,
                                       <<"convert_X", "done">>,
                                       <<"add", "rep">>, <<"rep", "del">>,
                                       <<"del", "done">>, <<"add", "error">>,
                                       <<"rep", "error">>,
                                       <<"del", "error">>}]_vars

\* C22 witness: a call that returned after iterations of all three loops
C22_Witness ==
    /\ Returned
    /\ add_done > 0
    /\ rep_done > 0
    /\ del_done > 0

\* ----------------------------------------- claims on _parallel_convert, II
\* the buckets whose worker has handed back its result
ReturnedBuckets == {data_buckets[k].id : k \in 1..Len(data_buckets)}

\* C23: in the parallel path the merge starts only after the worker of every
\* bucket has returned its result; until then the caller sees no data,
\* merged or partial.
C23_MergeAfterAllWorkers ==
    /\ []((NUM_PROCESSES > 1 /\ (cpc \in {"start", "map"} \/ pending # {})) =>
             data = <<>>)
    /\ [][(NUM_PROCESSES > 1 /\ (data' # data \/ cpc' = "done")) =>
             /\ cpc = "map"
             /\ pending = {}
             /\ ReturnedBuckets = 0..(Len(buckets) - 1)]_vars

\* C23 witness: three workers returned, not in the order of their buckets,
\* before the merge gave the caller its data
C23_Witness ==
    /\ ParallelDone
    /\ Len(data_buckets) = 3
    /\ data_buckets[1].id = 2
    /\ data # <<>>

\* C24: one rep iteration selects an index i with ids[i] # 0 and
\* rep_labels[i] = 0, sets rep_labels[i] to the id at i and overwrites ids[i]
\* with a value in 1..vocab_size-1; no other position and no other list
\* changes and no position is replaced twice, so through the rep loop each
\* non-zero rep label is the id the position held when the add loop ended and
\* each unlabelled position still holds that id.
C24_RepStepEffect ==
    /\ []((pc = "rep" \/ RepPhaseOver) =>
            \A i \in 0..(Len(input_ids) - 1) :
                IF At(rep_label_ids, i) # 0
                THEN At(rep_label_ids, i) = At(rep_entry_ids, i)
                ELSE At(input_ids, i) = At(rep_entry_ids, i))
    /\ [][(pc = "rep" /\ rep_done' = rep_done + 1) =>
            \E i \in 0..(Len(input_ids) - 1) :
                /\ At(input_ids, i) # 0
                /\ At(rep_label_ids, i) = 0
                /\ At(rep_label_ids', i) = At(input_ids, i)
                /\ At(input_ids', i) \in 1..(vocab_size - 1)
                /\ Len(input_ids') = Len(input_ids)
                /\ Len(rep_label_ids') = Len(rep_label_ids)
                /\ \A k \in 0..(Len(input_ids) - 1) \ {i} :
                      /\ At(input_ids', k) = At(input_ids, k)
                      /\ At(rep_label_ids', k) = At(rep_label_ids, k)
                /\ add_label_ids' = add_label_ids
                /\ del_label_ids' = del_label_ids]_vars

\* C24 witness: after an add iteration, two rep iterations have replaced two
\* positions, one of them by a different id
C24_Witness ==
    /\ RepPhaseOver
    /\ add_done > 0
    /\ rep_done = 2
    /\ \E i \in 0..(Len(input_ids) - 1) :
          /\ At(rep_label_ids, i) # 0
          /\ At(input_ids, i) # At(rep_label_ids, i)

\* C25: one del iteration selects an index i with ids[i] # 0 and
\* del_labels[i] = 0, inserts at i an id in 1..vocab_size-1 into ids, 0 into
\* rep_labels and add_labels and 1 into del_labels, the entries from i on
\* moving right by one in all four lists together, and drops the last entry
\* of each list: the token formerly at i is at i+1 with its labels.
C25_DelStepEffect ==
    [][(pc = "del" /\ del_done' = del_done + 1) =>
        \E i \in 0..(Len(input_ids) - 2) :
            LET L == Len(input_ids)
                Inserted(old, new) ==
                    /\ Len(new) = L
                    /\ Len(old) = L
                    /\ \A k \in 0..(i - 1) : At(new, k) = At(old, k)
                    /\ \A k \in i..(L - 2) : At(new, k + 1) = At(old, k)
            IN  /\ At(input_ids, i) # 0
                /\ At(del_label_ids, i) = 0
                /\ At(input_ids', i) \in 1..(vocab_size - 1)
                /\ At(rep_label_ids', i) = 0
                /\ At(add_label_ids', i) = 0
                /\ At(del_label_ids', i) = 1
                /\ Inserted(input_ids, input_ids')
                /\ Inserted(rep_label_ids, rep_label_ids')
                /\ Inserted(add_label_ids, add_label_ids')
                /\ Inserted(del_label_ids, del_label_ids')]_vars

\* C25 witness: a del iteration has moved right a token that carries an add
\* label
C25_Witness ==
    /\ pc = "del" /\ is_training
    /\ del_done = 1
    /\ \E k \in 1..(Len(input_ids) - 1) :
          del_label_ids[k] = 1 /\ add_label_ids[k + 1] # 0

\* C26: a del iteration runs only when the last id is 0; with a non-zero last
\* id the loop ends at once and leaves the four lists as they are. The entry
\* a del iteration drops is therefore a pad with zero labels, and no token and
\* no recorded label is pushed off the end.
C26_DelNeedsFreeSpace ==
    [][pc = "del" =>
        LET last == Len(input_ids) - 1
        IN  /\ del_done' = del_done + 1 =>
                  /\ At(input_ids, last) = 0
                  /\ At(rep_label_ids, last) = 0
                  /\ At(add_label_ids, last) = 0
                  /\ At(del_label_ids, last) = 0
                  /\ NonZeroCount(input_ids') = NonZeroCount(input_ids) + 1
                  /\ NonZeroCount(rep_label_ids') = NonZeroCount(rep_label_ids)
                  /\ NonZeroCount(add_label_ids') = NonZeroCount(add_label_ids)
                  /\ DelCount(del_label_ids') = DelCount(del_label_ids) + 1
            /\ At(input_ids, last) # 0 =>
                  /\ pc' = "done"
                  /\ del_done' = del_done
                  /\ input_ids' = input_ids
                  /\ rep_label_ids' = rep_label_ids
                  /\ add_label_ids' = add_label_ids
                  /\ del_label_ids' = del_label_ids]_vars

\* C26 witness: the del loop filled the last free position, kept the add
\* label recorded before it, and ended with budget and candidates left
C26_Witness ==
    /\ Returned
    /\ del_done = 1 /\ max_del = 2
    /\ At(input_ids, Len(input_ids) - 1) # 0
    /\ NonZeroCount(add_label_ids) > 0
    /\ DelCands(input_ids, del_label_ids) # {}

\* the non-zero ids form a contiguous prefix followed by zeros only
PadsLast(ids) ==
    \A k \in 1..Len(ids) : ids[k] = 0 => \A j \in k..Len(ids) : ids[j] = 0

\* C27: if the non-zero ids form a contiguous prefix followed only by zeros
\* on entry to sample_wrong_tokens, they do after every add, rep and del
\* iteration, no pad position is a candidate of any loop and none carries a
\* label.
C27_PadsStayLast ==
    (InSampler /\ PadsLast(entry_ids)) =>
        /\ PadsLast(input_ids)
        /\ \A i \in 0..(Len(input_ids) - 1) :
              At(input_ids, i) = 0 =>
                  /\ At(rep_label_ids, i) = 0
                  /\ At(add_label_ids, i) = 0
                  /\ At(del_label_ids, i) = 0
                  /\ i \notin AddCands(input_ids, add_label_ids)
                  /\ i - 1 \notin AddCands(input_ids, add_label_ids)
                  /\ i \notin RepCands(input_ids, rep_label_ids)
                  /\ i \notin DelCands(input_ids, del_label_ids)

\* C27 witness: a call entered with tokens followed by a pad has returned
\* after iterations of all three loops with a pad at the end
C27_Witness ==
    /\ Returned
    /\ At(entry_ids, 0) # 0
    /\ At(entry_ids, Len(entry_ids) - 1) = 0
    /\ At(input_ids, Len(input_ids) - 1) = 0
    /\ add_done > 0 /\ rep_done > 0 /\ del_done > 0
    /\ PadsLast(entry_ids)

\* ------------------------------------------------ claims on the encoder, III
\* C28: in training the edit budget (max_rep, max_add, max_del) _convert_X
\* hands to the sampler consists of non-negative integers whose sum is at
\* most round(nonpad_seq_length * all_prob), hence at most nonpad_seq_length.
C28_BudgetBounded ==
    [][(pc = "convert_X" /\ is_training) =>
        LET nonpad_seq_length ==
                Len(TruncateSegments(example, max_seq_length, truncate_method))
            total == max_rep' + max_add' + max_del'
        IN  /\ pc' = "add"
            /\ max_rep' \in Nat /\ max_add' \in Nat /\ max_del' \in Nat
            /\ total <= RoundHalfEven(nonpad_seq_length * AllProb(probs), 100)
            /\ total <= nonpad_seq_length]_vars

\* C28 witness: an example of several tokens has been given a budget of two
\* edits of different types
C28_Witness ==
    /\ pc = "add" /\ is_training
    /\ Len(example) > 1
    /\ add_done = 0
    /\ max_rep = 1 /\ max_add = 0 /\ max_del = 1

\* ------------------------------------------ claims on the reconstructor, II
\* _get_predict_outputs has returned its predictions
Reconstructed == method = "predict" /\ cpc = "returned" /\ outputs # None

\* the tokens kept of example k and the number of its non-pad ids
ExTokens(k) == self_input_tokens[1][k]
ExLength(k) == NonZeroCount(self_data[1]["input_ids"][k])

\* the rep, add or del prediction of example k at position i counts; with
\* gated, only if the probability of its edit type is positive
RepFires(k, i, gated) ==
    (gated => Positive(self_p[1])) /\ At(rep_preds[k], i) # 0
AddFires(k, i, gated) ==
    (gated => Positive(self_p[2])) /\ At(add_preds[k], i) # 0
DelFires(k, i, gated) ==
    (gated => Positive(self_p[3])) /\ At(del_preds[k], i) # 0

\* the rendering of the token old of example k at position i: rep before del
Marked(old, k, i, gated) ==
    IF RepFires(k, i, gated)
    THEN RepNote(old, StripContinuation(
                          TokenChars(IdToken(At(rep_preds[k], i)))))
    ELSE IF DelFires(k, i, gated) THEN DelNote(old)
    ELSE old

\* the insertion predicted after position i of example k
Inserted(k, i) ==
    AddNote(StripContinuation(TokenChars(IdToken(At(add_preds[k], i)))))

\* the number of insertions made before position i of example k
AddsBefore(k, i, gated) ==
    Cardinality({j \in 0..(i - 1) : AddFires(k, j, gated)})

\* every position of every token list is rendered by the rule
TokensRendered(gated) ==
    \A k \in 1..Len(outputs[1]) :
        self_tokenized[1] =>
            LET out == outputs[1][k]
            IN  \A i \in 0..(ExLength(k) - 1) :
                    LET pos == i + AddsBefore(k, i, gated)
                    IN  /\ pos < Len(out)
                        /\ At(out, pos) =
                              Marked(TokenChars(At(ExTokens(k), i)), k, i,
                                     gated)
                        /\ AddFires(k, i, gated) =>
                              /\ pos + 1 < Len(out)
                              /\ At(out, pos + 1) = Inserted(k, i)

\* the text with the span of every token from position i on rendered by the
\* rule, the characters between the spans kept; from is the end of the
\* span before
RECURSIVE AnnotatedText(_, _, _, _, _, _)
AnnotatedText(text, spans, k, i, from, gated) ==
    IF i >= Len(spans) THEN Slice(text, from, Len(text))
    ELSE Slice(text, from, At(spans, i)[1])
         \o Marked(Slice(text, At(spans, i)[1], At(spans, i)[2]), k, i, gated)
         \o (IF AddFires(k, i, gated) THEN Inserted(k, i) ELSE <<>>)
         \o AnnotatedText(text, spans, k, i + 1, At(spans, i)[2], gated)

\* every text is rendered by the rule
TextRendered(gated) ==
    \A k \in 1..Len(outputs[1]) :
        ~self_tokenized[1] =>
            LET text == TextChars(self_X_target[1][k].tokens)
                spans == Align(ExTokens(k), text, 0)
            IN  /\ Len(spans) = ExLength(k)
                /\ outputs[1][k] = AnnotatedText(text, spans, k, 0, 0, gated)

\* C29 (as claimed): at every position i below input_length a non-zero rep
\* prediction renders the token as {rep:old->new} and a del prediction at i
\* is ignored; else a non-zero del prediction renders it as {del:old}; a
\* non-zero add prediction at i inserts {add:new} whether or not rep or del
\* fired.
C29_RepBeforeDelAddIndependent ==
    Reconstructed => TokensRendered(FALSE) /\ TextRendered(FALSE)

\* C29 (amended): the same, a prediction counting only if the probability of
\* its edit type (rep_prob, del_prob, add_prob) is positive; a rep prediction
\* that does not count leaves the del prediction at i in force.
C29_GatedRepBeforeDelAddIndependent ==
    Reconstructed => TokensRendered(TRUE) /\ TextRendered(TRUE)

\* C29 witness: a token with rep, del and add predictions is rendered as a
\* replacement followed by an insertion, the next one with del and add
\* predictions as a deletion followed by an insertion
C29_Witness ==
    /\ Reconstructed
    /\ self_tokenized = Some(TRUE)
    /\ probs = <<30, 30, 30>>
    /\ rep_preds[1] = <<2, 0>>
    /\ del_preds[1] = <<1, 1>>
    /\ add_preds[1] = <<1, 1>>
    /\ outputs[1][1] = <<RepNote(<<"b">>, <<"b">>), AddNote(<<"a">>),
                         DelNote(<<"a">>), AddNote(<<"a">>)>>

\* the token list of example k and the offset n after stop iterations of the
\* loop of rec_bert.py lines 359-377
LoopAfter(k, stop) ==
    TokenLoop([j \in 1..Len(ExTokens(k)) |-> TokenChars(ExTokens(k)[j])],
              0, 0, stop,
              [rep |-> rep_preds[k], add |-> add_preds[k],
               del |-> del_preds[k]],
              self_p)

\* a token, bare or wrapped in a rep or del annotation
Wrappings(old) ==
    {old, DelNote(old)} \cup {RepNote(old, TokenChars(t)) : t \in DOMAIN Vocab}

\* every token list holds its tokens in order, an insertion right after
\* every position whose add prediction counts, and nothing else; the offset
\* n is the number of insertions made so far
TokensKept(gated) ==
    \A k \in 1..Len(outputs[1]) :
        self_tokenized[1] =>
            LET out == outputs[1][k]
                tokens == ExTokens(k)
                input_length == ExLength(k)
            IN  /\ Len(out) =
                      Len(tokens) + AddsBefore(k, input_length, gated)
                /\ \A i \in 0..(Len(tokens) - 1) :
                      LET pos == i + AddsBefore(k, Min(i, input_length), gated)
                      IN  /\ pos < Len(out)
                          /\ At(out, pos) \in Wrappings(TokenChars(At(tokens, i)))
                          /\ (i < input_length /\ AddFires(k, i, gated)) =>
                                /\ pos + 1 < Len(out)
                                /\ At(out, pos + 1) = Inserted(k, i)
                /\ \A stop \in 0..input_length :
                      /\ LoopAfter(k, stop).n = AddsBefore(k, stop, gated)
                      /\ Len(LoopAfter(k, stop).out) =
                            Len(tokens) + LoopAfter(k, stop).n

\* C30 (as claimed): in token-sequence reconstruction the output holds every
\* input token, bare or wrapped in a rep or del annotation, in the original
\* order, with one {add:new} element right after token i for every position
\* i below input_length whose add prediction is non-zero; the offset n is
\* always the number of add annotations inserted so far and the output is as
\* long as the input tokens plus the number of those positions.
C30_TokensKeptAddsInserted ==
    Reconstructed => TokensKept(FALSE)

\* C30 (amended): the same, the add predictions counting only if add_prob is
\* positive; with add_prob = 0 nothing is inserted and n stays 0.
C30_TokensKeptGatedAddsInserted ==
    Reconstructed => TokensKept(TRUE)

\* C30 witness: an insertion after the first token has moved the second
\* token, which is replaced, one place to the right
C30_Witness ==
    /\ Reconstructed
    /\ self_tokenized = Some(TRUE)
    /\ add_preds[1] = <<1, 0>>
    /\ outputs[1][1] = <<<<"b">>, AddNote(<<"a">>),
                         RepNote(<<"a">>, <<"b">>)>>

\* ----------------------------------------- claims on the reconstructor, III
\* the text of example k as the caller passed it, and its alignment
ExText(k) == TextChars(self_X_target[1][k].tokens)
ExSpans(k) == Align(ExTokens(k), ExText(k), 0)

\* the spans are increasing and do not overlap
SpansOrdered(spans) ==
    /\ \A i \in 1..Len(spans) : spans[i][1] <= spans[i][2]
    /\ \A i \in 1..(Len(spans) - 1) : spans[i][2] <= spans[i + 1][1]

\* the text of example k and the offset n after stop iterations of the loop
\* of rec_bert.py lines 378-413
TextAfter(k, stop) ==
    TextLoop(ExText(k), 0, 0, stop,
             [rep |-> rep_preds[k], add |-> add_preds[k],
              del |-> del_preds[k]],
             self_p, ExSpans(k))

\* C31: in text-mode reconstruction with increasing, non-overlapping spans
\* the running offset n keeps every span located: before each iteration n is
\* the growth of the text so far, the characters the iteration reads for
\* token i are the original characters mapping_start[i]..mapping_end[i], the
\* text holds the annotated spans of the tokens done (an add annotation right
\* after the span of its token) and every other character of the original
\* text, unchanged and in order.
C31_OffsetKeepsSpansLocated ==
    Reconstructed =>
        \A k \in 1..Len(outputs[1]) :
            (~self_tokenized[1] /\ SpansOrdered(ExSpans(k))) =>
                /\ \A stop \in 0..ExLength(k) :
                      LET now == TextAfter(k, stop)
                      IN  /\ now.n = Len(now.text) - Len(ExText(k))
                          /\ stop < ExLength(k) =>
                                Slice(now.text, At(ExSpans(k), stop)[1] + now.n,
                                      At(ExSpans(k), stop)[2] + now.n)
                                = Slice(ExText(k), At(ExSpans(k), stop)[1],
                                        At(ExSpans(k), stop)[2])
                          /\ now.text =
                                AnnotatedText(ExText(k),
                                              SubSeq(ExSpans(k), 1, stop),
                                              k, 0, 0, TRUE)
                /\ outputs[1][k] = TextAfter(k, ExLength(k)).text

\* C31 witness: in the text 'A b' the first word is replaced and followed by
\* an insertion, the second word, located behind both, is marked deleted
C31_Witness ==
    /\ Reconstructed
    /\ self_tokenized = Some(FALSE)
    /\ ExSpans(1) = << <<0, 1>>, <<2, 3>> >>
    /\ outputs[1][1] = RepNote(<<"A">>, <<"b">>) \o AddNote(<<"a">>)
                       \o <<" ">> \o DelNote(<<"b">>)

\* ----------------------------------------------- claims on the sampler, III
\* the non-pad ids of a list, in order
NonPad(ids) == SelectSeq(ids, LAMBDA v : v # 0)

\* the ids from position i (from 1) on with the corruption undone: the
\* del-flagged positions dropped, every rep-labelled id set back to its
\* label, every add label put back right after its position
RECURSIVE Restored(_, _, _, _, _)
Restored(ids, rep, add, del, i) ==
    IF i > Len(ids) THEN <<>>
    ELSE IF del[i] = 1 THEN Restored(ids, rep, add, del, i + 1)
    ELSE <<IF rep[i] # 0 THEN rep[i] ELSE ids[i]>>
         \o (IF add[i] # 0 THEN <<add[i]>> ELSE <<>>)
         \o Restored(ids, rep, add, del, i + 1)

\* C32: the corruption sample_wrong_tokens makes is invertible: at return,
\* dropping the del-flagged positions, restoring ids[i] to rep_labels[i]
\* where that label is non-zero and re-inserting add_labels[i] right after
\* position i where that label is non-zero gives the original non-pad ids,
\* for every input and every budget.
C32_CorruptionInvertible ==
    Returned =>
        NonPad(Restored(input_ids, rep_label_ids, add_label_ids,
                        del_label_ids, 1))
        = NonPad(entry_ids)

\* C32 witness: a call on three tokens returned after iterations of all
\* three loops with other non-pad ids than it was given
C32_Witness ==
    /\ Returned
    /\ Len(NonPad(entry_ids)) = 3
    /\ add_done > 0 /\ rep_done > 0 /\ del_done > 0
    /\ NonPad(input_ids) # NonPad(entry_ids)

\* C33: at return of sample_wrong_tokens every del-flagged position holds a
\* token with add label 0 and rep label 0, and every pad position has all
\* three labels 0.
C33_FlaggedAndPadsUnlabelled ==
    Returned =>
        \A k \in 1..Len(input_ids) :
            /\ del_label_ids[k] # 0 =>
                  /\ input_ids[k] # 0
                  /\ add_label_ids[k] = 0
                  /\ rep_label_ids[k] = 0
            /\ input_ids[k] = 0 =>
                  /\ rep_label_ids[k] = 0
                  /\ add_label_ids[k] = 0
                  /\ del_label_ids[k] = 0

\* C33 witness: at return an inserted token stands before a token that
\* carries an add label, and the list ends with a pad
C33_Witness ==
    /\ Returned
    /\ input_ids[Len(input_ids)] = 0
    /\ \E k \in 1..(Len(input_ids) - 1) :
          del_label_ids[k] = 1 /\ add_label_ids[k + 1] # 0

\* the add loop is running or has just ended
AddPhase == is_training /\ (pc = "add" \/ (pc = "rep" /\ rep_done = 0))

\* C34: in the add loop the removed element carries no label of any kind
\* and a surviving token absorbs at most one token, its immediate original
\* successor; with n non-pad tokens on entry the loop makes at most
\* floor(n/2) merges and leaves at least ceil(n/2) non-pad tokens (at least
\* one when n >= 1), whatever max_add is.
C34_AddMergesHalfAtMost ==
    /\ [](AddPhase =>
            LET n == NonZeroCount(entry_ids)
                left == NonZeroCount(input_ids)
            IN  /\ 2 * add_done <= n
                /\ left = n - add_done
                /\ 2 * left >= n
                /\ n >= 1 => left >= 1
                /\ NonZeroCount(add_label_ids) = add_done
                /\ NonPad(Restored(input_ids, Zeros(Len(input_ids)),
                                   add_label_ids, Zeros(Len(input_ids)), 1))
                   = NonPad(entry_ids))
    /\ [][(pc = "add" /\ add_done' = add_done + 1) =>
            \E i \in 0..(Len(input_ids) - 2) :
                /\ At(add_label_ids, i) = 0
                /\ At(add_label_ids', i) = At(input_ids, i + 1)
                /\ At(input_ids', i) = At(input_ids, i)
                /\ At(input_ids, i + 1) # 0
                /\ At(rep_label_ids, i + 1) = 0
                /\ At(add_label_ids, i + 1) = 0
                /\ At(del_label_ids, i + 1) = 0
                /\ input_ids' = Append(PopAt(input_ids, i + 1), 0)]_vars

\* C34 witness: on three tokens the add loop ended after one merge with a
\* budget of two
C34_Witness ==
    /\ AddPhase
    /\ pc = "rep"
    /\ NonZeroCount(entry_ids) = 3
    /\ max_add = 2
    /\ add_done = 1

\* ------------------------------------------------ claims on the methods, II
\* C35: the prediction-mode flag _on_predict is True only while predict is
\* executing: once predict has returned or raised it is False again, and no
\* conversion made for fit or score runs in prediction mode.
C35_PredictModeOnlyInPredict ==
    /\ (method = "predict" /\ cpc \in {"returned", "raised"}) => ~on_predict
    /\ method \in {"fit", "score"} => ~on_predict

\* ------------------------------------------- claims on the probabilities
\* an annotation of the kind whose name begins with letter occurs in chars
HasNote(chars, letter) ==
    \E j \in 1..(Len(chars) - 1) : chars[j] = "{" /\ chars[j + 1] = letter

\* an annotation of that kind occurs in the output made for example k
OutputHasNote(k, letter) ==
    IF self_tokenized[1]
    THEN \E j \in 1..Len(outputs[1][k]) : HasNote(outputs[1][k][j], letter)
    ELSE HasNote(outputs[1][k], letter)

\* the output rec_bert.py lines 359-413 make for example k from the rows
\* rep, add and del
OutputFrom(k, rep, add, del) ==
    LET preds == [rep |-> rep, add |-> add, del |-> del]
    IN  IF self_tokenized[1]
        THEN TokenLoop([j \in 1..Len(ExTokens(k)) |->
                           TokenChars(ExTokens(k)[j])],
                       0, 0, ExLength(k), preds, self_p).out
        ELSE TextLoop(ExText(k), 0, 0, ExLength(k), preds, self_p,
                      ExSpans(k)).text

\* the row of predictions of example k, all zero if the probability is 0
RowIfEnabled(row, prob) == IF prob = 0 THEN Zeros(Len(row)) ELSE row

\* C36: an edit type configured with probability 0 is inert: in training
\* its budget is 0 and its label array stays all-zero through the sampler;
\* in reconstruction the non-zero predictions of that type are ignored and
\* no annotation of that type appears.
C36_ZeroProbabilityInert ==
    /\ InSampler =>
          /\ probs[1] = 0 =>
                max_rep = 0 /\ rep_label_ids = Zeros(Len(input_ids))
          /\ probs[2] = 0 =>
                max_add = 0 /\ add_label_ids = Zeros(Len(input_ids))
          /\ probs[3] = 0 =>
                max_del = 0 /\ del_label_ids = Zeros(Len(input_ids))
    /\ Reconstructed =>
          \A k \in 1..Len(outputs[1]) :
              /\ probs[1] = 0 => ~OutputHasNote(k, "r")
              /\ probs[2] = 0 => ~OutputHasNote(k, "a")
              /\ probs[3] = 0 => ~OutputHasNote(k, "d")
              /\ outputs[1][k] =
                    OutputFrom(k, RowIfEnabled(rep_preds[k], probs[1]),
                               RowIfEnabled(add_preds[k], probs[2]),
                               RowIfEnabled(del_preds[k], probs[3]))

\* C36 witness: with rep_prob = 0 a non-zero rep prediction at the first
\* token is ignored and the del prediction there is rendered
C36_Witness ==
    /\ Reconstructed
    /\ probs = <<0, 30, 30>>
    /\ rep_preds[1][1] # 0
    /\ del_preds[1][1] # 0
    /\ OutputHasNote(1, "d")
    /\ ~OutputHasNote(1, "r")

\* ---------------------------------------- claims on _parallel_convert, III
\* the row convert makes of example i alone in the field key
RowOf(i, key) ==
    ConvertData(<<X[i]>>,
                IF Truthy(sample_weight)
                THEN Some(<<sample_weight[1][i]>>) ELSE None,
                tokenized, is_training)[key][1]

\* the number of rows in the results the workers handed back, in field key
RECURSIVE RowsReturned(_, _)
RowsReturned(results, key) ==
    IF results = <<>> THEN 0
    ELSE Len(Head(results).data[key]) + RowsReturned(Tail(results), key)

\* C37: the merged output of the parallel path has n_inputs rows in every
\* field and is a permutation of the per-example encodings: every example
\* contributes exactly one row, none is lost or duplicated by bucketing and
\* merging.
C37_MergedRowsArePermutation ==
    ParallelDone =>
        /\ \A key \in DOMAIN data :
              /\ Len(data[key]) = Len(X)
              /\ RowsReturned(data_buckets, key) = Len(X)
        /\ \E f \in Permutations(1..Len(X)) :
              \A key \in DOMAIN data : \A i \in 1..Len(X) :
                  data[key][i] = RowOf(f[i], key)

\* C37 witness: three examples, not all encoded alike, dealt to two workers
\* of which the second returned first
C37_Witness ==
    /\ ParallelDone
    /\ Len(X) = 3
    /\ NUM_PROCESSES = 2
    /\ data_buckets[1].id = 1
    /\ Cardinality({data["input_ids"][i] : i \in 1..3}) > 1
====
